---- MODULE Spec2Model ----
(***************************************************************************)
(* CollaborList: the item routes of the server (POST/PUT/DELETE            *)
(* /api/...items, the socket.io room broadcast) and the client's item      *)
(* list (optimistic createItem / toggleItemComplete / deleteItem, the      *)
(* item-created / item-updated / item-deleted handlers, handleDragEnd).    *)
(*                                                                         *)
(* Conventions of the translation                                          *)
(*  - a server item identifier is a positive integer (SERIAL); the client  *)
(*    identifier temp-<t> is the negative integer -t; null or undefined    *)
(*    parent_id is NoParent;                                               *)
(*  - a text is a sequence of one-character strings, so that sanitizeInput *)
(*    and trim are computed, not assumed;                                  *)
(*  - a handler is given twice: await by await (PostStart .. DeleteEmit),  *)
(*    other handlers interleaving between the steps, for the runs about    *)
(*    concurrent requests, and as one step (HandlePost, HandlePut,         *)
(*    HandleDelete) for the runs in which that interleaving plays no part; *)
(*  - a socket.io connection is a FIFO queue per client, HTTP responses    *)
(*    travel independently of it.                                          *)
(***************************************************************************)
EXTENDS Integers, Sequences, FiniteSets, TLC

\* --------------------------------------------------------------- bounds
\* SpecMoves (a sequence of creates and moves, each completed before the next)
MovesMaxCreates == 3
MovesMaxDrags == 2
\* SpecOrder (drops on a list with pending sub-items, one client)
OrderRows == 1
OrderMaxActions == 3
\* SpecConc (two clients, handlers interleaved at their awaits)
ConcRows == 1
ConcMaxRequests == 2
\* SpecCreate (optimistic creates and their failures)
CreateRows == 1
CreateMaxCreates == 2
\* SpecTwin (pending creates of equal text)
TwinRows == 1
TwinMaxCreates == 2
\* SpecTrim (creates whose text the server changes)
TrimRows == 1
TrimMaxCreates == 2
\* SpecTemp (local actions on a temporary item)
TempRows == 1
TempMaxCreates == 1
TempMaxLocal == 2
\* SpecRollback (toggle and delete with rollback)
RollRows == 2
RollMaxRequests == 2
\* SpecStore (requests one at a time, any store query may throw)
StoreRows == 1
StoreMaxRequests == 3
\* SpecStale (two clients, updates and deletes interleaved at their awaits)
StaleRows == 1
StaleMaxRequests == 2
\* SpecDenied (requests of a user without an edit grant)
DeniedRows == 1
DeniedMaxRequests == 2
\* SpecRooms (connections that join and leave while the owner edits)
RoomsRows == 1
RoomsMaxRequests == 2
\* SpecNotes (one user types notes while the other toggles the item)
NotesRows == 1
NotesMaxEdits == 2
NotesMaxToggles == 1
\* SpecTimer (notes typed, then the item deleted or the list switched)
TimerMaxDeletes == 1
\* SpecReconnect (a connection drops and comes back while the owner edits)
ReconnectRows == 1
ReconnectMaxRequests == 2
\* SpecNest (two clients drag items of the same list)
NestRows == 2
NestMaxDrags == 2
\* SpecRace (two clients move items of the same list at the same time)
RaceRows == 3
RaceMaxDrags == 2
\* SpecOwner (requests to delete and to share the list, by either user)
OwnerRows == 1
OwnerMaxRequests == 2
\* SpecDrop (sibling drops of one client, one at a time)
DropRows == 3
DropMaxDrags == 2
\* SpecDuel (two users save notes of the same item)
DuelRows == 1
DuelMaxEdits == 2
\* SpecGrant (the owner shares the list while the other user is connected)
GrantRows == 1
GrantMaxRequests == 2
\* SpecFetch (lists opened and their items fetched while the other user edits)
FetchRows == 1
FetchMaxOpens == 2
FetchMaxToggles == 1
\* SpecClock (creates at any reading of the millisecond clock)
ClockRows == 1
ClockMaxCreates == 2
ClockMaxTicks == 2
\* SpecWalk (drops on a local list with any parent links)
WalkLen == 3
WalkMaxDrags == 1
\* SpecLimit (requests passing the rate limiter): the windows the clock may
\* run through, and the requests a key may send beyond its limit
LimitMaxWindows == 1
LimitMaxOver == 2
\* SpecEvents (handlers as pure functions): length of the drawn local list
EventsMaxLen == 2

\* ------------------------------------------------------ program constants
GAP == 1000
MaxTextLen == 1000
NoParent == 0

Clients == {"c1", "c2"}
Owner == "c1"
TheList == 1
\* what the user types: a plain text, one that sanitizeInput shortens and one
\* it empties
Texts == {<<"a">>, <<"a", "(">>, <<"(">>}

ErrCycle == "Cannot move item into its own sub-item"
ErrView == "You only have view permission for this list"
ErrCreate == "Failed to create item"
ErrUpdate == "Failed to update item"
ErrDelete == "Failed to delete item"
ErrMove == "Failed to move item"
ErrNotes == "Failed to update notes"
NoError == "null"

NoItem ==
  [id |-> 0, list_id |-> 0, text |-> <<>>, completed |-> FALSE,
   position |-> 0, notes |-> "", parent_id |-> NoParent]

IsTemp(id) == id < 0

\* ------------------------------------------------------------ sequences
Range(s) == {s[i] : i \in DOMAIN s}

\* Array.prototype.map with the per-element function F
MapSeq(F(_), s) == [i \in DOMAIN s |-> F(s[i])]

RECURSIVE InsertSorted(_, _)
\* x goes after every element whose position is not greater (stable)
InsertSorted(x, s) ==
  IF s = <<>> THEN <<x>>
  ELSE IF s[Len(s)].position <= x.position THEN Append(s, x)
  ELSE Append(InsertSorted(x, SubSeq(s, 1, Len(s) - 1)), s[Len(s)])

RECURSIVE SortByPosition(_)
\* items.sort((a, b) => a.position - b.position): a stable sort
SortByPosition(s) ==
  IF s = <<>> THEN <<>>
  ELSE InsertSorted(s[Len(s)], SortByPosition(SubSeq(s, 1, Len(s) - 1)))

\* items.find(pred): the first element satisfying it, NoItem for undefined
FindFirst(s, P(_)) ==
  IF \E i \in DOMAIN s : P(s[i])
  THEN s[CHOOSE i \in DOMAIN s : P(s[i]) /\ \A j \in 1..(i - 1) : ~P(s[j])]
  ELSE NoItem

Count(s, P(_)) == Cardinality({i \in DOMAIN s : P(s[i])})

\* ------------------------------------------------------------- security
\* the characters of the class removed by the regular expression; the double
\* quote, the backquote and the backslash are written by name
Dangerous ==
  {"<", ">", "dquote", "'", "backquote", ";", "(", ")", "{", "}", "[", "]",
   "backslash"}

RECURSIVE TrimLeft(_)
TrimLeft(s) == IF s # <<>> /\ s[1] = " " THEN TrimLeft(Tail(s)) ELSE s

RECURSIVE TrimRight(_)
TrimRight(s) ==
  IF s # <<>> /\ s[Len(s)] = " " THEN TrimRight(SubSeq(s, 1, Len(s) - 1)) ELSE s

trim(s) == TrimRight(TrimLeft(s))

sanitizeInput(input) ==
  LET kept == SelectSeq(input, LAMBDA ch : ch \notin Dangerous)
      t == trim(kept)
  IN  IF Len(t) > MaxTextLen THEN SubSeq(t, 1, MaxTextLen) ELSE t

\* ------------------------------------------------- client: pure functions
NoNotes == "undefined"

\* createItem: the temporary item built from the clock reading t
tempItem(t, text, listId, items, parentId) ==
  [id |-> -t, text |-> text, completed |-> FALSE, list_id |-> listId,
   position |-> Len(items), parent_id |-> parentId, notes |-> NoNotes]

\* socket.on('item-created'): the updater passed to setItems
\* a handler without the test for an entry that already has the identifier
OnItemCreatedNoCheck(prev, item) ==
  LET tmp == FindFirst(prev, LAMBDA x : IsTemp(x.id) /\ x.text = item.text)
  IN  IF tmp # NoItem
      THEN MapSeq(LAMBDA x : IF x.id = tmp.id THEN item ELSE x, prev)
      ELSE SortByPosition(Append(prev, item))

OnItemCreated(prev, item) ==
  IF \E i \in DOMAIN prev : prev[i].id = item.id THEN prev
  ELSE LET tmp == FindFirst(prev, LAMBDA x : IsTemp(x.id) /\ x.text = item.text)
       IN  IF tmp # NoItem
           THEN MapSeq(LAMBDA x : IF x.id = tmp.id THEN item ELSE x, prev)
           ELSE SortByPosition(Append(prev, item))

\* socket.on('item-updated'): the updater passed to setItems; pendingNotes is
\* the set of identifiers with an entry in notesDebounceTimeout.current
\* a handler that keeps the whole local entry while its notes timer is pending
OnItemUpdatedKeepLocal(prev, item, pendingNotes) ==
  MapSeq(LAMBDA x : IF x.id = item.id /\ x.id \notin pendingNotes THEN item ELSE x,
         prev)

OnItemUpdated(prev, item, pendingNotes) ==
  MapSeq(LAMBDA x : IF x.id = item.id
                    THEN IF x.id \in pendingNotes
                         THEN [item EXCEPT !.notes = x.notes]
                         ELSE item
                    ELSE x,
         prev)

\* socket.on('item-deleted'): the updater passed to setItems
OnItemDeleted(prev, itemId) == SelectSeq(prev, LAMBDA x : x.id # itemId)

\* createItem: optimistic insert, replacement by the response, rollback
InsertTemp(prev, tmp) == Append(prev, tmp)

ReplaceTemp(prev, tempId, data) ==
  MapSeq(LAMBDA x : IF x.id = tempId THEN data ELSE x, prev)

\* a rollback that drops every temporary entry, not only the one of the call
RemoveTempAll(prev, tempId) == SelectSeq(prev, LAMBDA x : ~IsTemp(x.id))

RemoveTemp(prev, tempId) == SelectSeq(prev, LAMBDA x : x.id # tempId)

\* toggleItemComplete: optimistic update and rollback
ToggleApply(prev, id) ==
  MapSeq(LAMBDA x : IF x.id = id THEN [x EXCEPT !.completed = ~x.completed] ELSE x,
         prev)

\* a rollback that flips the flag back instead of restoring the saved value
ToggleRollbackFlip(prev, id, completed) ==
  MapSeq(LAMBDA x : IF x.id = id THEN [x EXCEPT !.completed = ~x.completed] ELSE x,
         prev)

ToggleRollback(prev, id, completed) ==
  MapSeq(LAMBDA x : IF x.id = id THEN [x EXCEPT !.completed = completed] ELSE x,
         prev)

\* updateItemNotes: the local update after the request succeeded
NotesSaved(prev, itemId, notes) ==
  MapSeq(LAMBDA x : IF x.id = itemId THEN [x EXCEPT !.notes = notes] ELSE x, prev)

\* deleteItem: optimistic removal and rollback
DeleteApply(prev, id) == SelectSeq(prev, LAMBDA x : x.id # id)

\* a rollback that appends the item and leaves the list unsorted
DeleteRollbackAppend(prev, deletedItem) == Append(prev, deletedItem)

DeleteRollback(prev, deletedItem) == SortByPosition(Append(prev, deletedItem))

\* ------------------------------------------------ client: ordering engine
RECURSIVE isDescendantN(_, _, _, _)
\* handleDragEnd.isDescendant with the depth of the recursion counted: a walk
\* longer than the list is in a cycle of parent links and never returns; the
\* engine ends it with a RangeError ("overflow")
isDescendantN(parentItem, childItem, items, fuel) ==
  IF fuel = 0 THEN "overflow"
  ELSE IF childItem.parent_id = NoParent THEN "false"
  ELSE IF childItem.parent_id = parentItem.id THEN "true"
  ELSE LET parent == FindFirst(items, LAMBDA i : i.id = childItem.parent_id)
       IN  IF parent # NoItem
           THEN isDescendantN(parentItem, parent, items, fuel - 1)
           ELSE "false"

\* a cycle test that looks at the direct parent only and never walks upwards
isDescendantDirect(parentItem, childItem, items) ==
  IF childItem.parent_id = parentItem.id THEN "true" ELSE "false"

isDescendant(parentItem, childItem, items) ==
  isDescendantN(parentItem, childItem, items, Len(items) + 1)

Max(a, b) == IF a >= b THEN a ELSE b

\* handleDragEnd: the position of a sibling drop (lines 2098-2133)
NewPosition(items, overItem, droppingAbove) ==
  LET siblings ==
        SortByPosition(SelectSeq(items, LAMBDA x : x.parent_id = overItem.parent_id))
      overIndex ==
        CHOOSE i \in DOMAIN siblings :
          /\ siblings[i].id = overItem.id
          /\ \A j \in 1..(i - 1) : siblings[j].id # overItem.id
  IN  IF droppingAbove
      THEN IF overIndex = 1
           THEN Max(0, overItem.position - GAP)
           ELSE LET prevItem == siblings[overIndex - 1]
                    midpoint == (prevItem.position + overItem.position) \div 2
                IN  IF midpoint = prevItem.position
                    THEN prevItem.position + 1
                    ELSE midpoint
      ELSE IF overIndex = Len(siblings)
           THEN overItem.position + GAP
           ELSE LET nextItem == siblings[overIndex + 1]
                    midpoint == (overItem.position + nextItem.position) \div 2
                IN  IF midpoint = overItem.position
                    THEN overItem.position + 1
                    ELSE midpoint

\* handleDragEnd as a function of the local list and the drop: what it reports
\* and the PUT it sends, if any.  send: "none" | "nest" | "move"
DragOutcome(items, activeId, overId, shouldNest, droppingAbove) ==
  LET activeItem == FindFirst(items, LAMBDA x : x.id = activeId)
      overItem == FindFirst(items, LAMBDA x : x.id = overId)
      quiet == [error |-> "keep", send |-> "none", position |-> 0]
  IN  IF activeId = overId \/ activeItem = NoItem \/ overItem = NoItem THEN quiet
      ELSE LET d == isDescendant(activeItem, overItem, items)
           IN  IF d = "overflow" THEN [quiet EXCEPT !.error = ErrMove]
               ELSE IF d = "true" THEN [quiet EXCEPT !.error = ErrCycle]
               ELSE IF shouldNest THEN [quiet EXCEPT !.send = "nest"]
               ELSE LET newPosition == NewPosition(items, overItem, droppingAbove)
                    IN  IF activeItem.parent_id # overItem.parent_id
                           \/ activeItem.position # newPosition
                        THEN [quiet EXCEPT !.send = "move", !.position = newPosition]
                        ELSE quiet

\* ------------------------------------------------------------------ state
VARIABLES
  db,        \* table list_items: the set of persisted rows
  nextId,    \* the SERIAL of list_items.id
  shares,    \* table list_shares of TheList: user -> "edit" | "view" | "none"
  rooms,     \* socket.io rooms: list id -> the connections joined to list-<id>
  reqs,      \* HTTP requests between the client's call and its continuation
  nextRid,   \* names the requests
  sockQ,     \* per connection: the events emitted to it and not yet handled
  cItems,    \* per client: the items state (an array)
  selected,  \* per client: selectedListRef.current?.id, 0 for none
  error,     \* per client: the error state
  crashed,   \* the clients whose component tree was torn down by a throw
  now,       \* the clock Date.now() reads
  issued,    \* how many user actions of each kind were taken (bounds the runs)
  commits,   \* history: the number of store writes that changed a row
  lastRecv,  \* history: per client, the commit number of the event handled last
  failed,    \* history: some request was answered with an error
  conn,      \* per connection: "none", "rejected", "setup", "ready"
  token,     \* per connection: socket.handshake.auth.token
  lists,     \* table lists: the identifiers of the owner's lists
  requestCounts, \* the Map of the rate limiter: key -> [count, windowStart]
  lastStatus,    \* the answer of the rate limiter to the last request: 0 or 429
  win,           \* history: per key, the window running and the requests passed
  notesTimer,    \* per client: notesDebounceTimeout.current, item -> notes to save
  editingNotes,  \* per client: the editingNotes state, item -> text of the field
  expandedNotes  \* per client: the expandedNotes state, item -> shown or not

vars ==
  <<db, nextId, shares, rooms, reqs, nextRid, sockQ, cItems, selected, error,
    crashed, now, issued, commits, lastRecv, failed, conn, token,
    lists, requestCounts, lastStatus, win, notesTimer, editingNotes,
    expandedNotes>>

serverVars == <<db, nextId, commits>>
clientVars == <<cItems, error, crashed>>
limitVars == <<requestCounts, lastStatus, win>>
fixedVars == <<shares, rooms, selected, conn, token, lists, limitVars, notesTimer>>
notesVars == <<editingNotes, expandedNotes>>

\* an object with no property, and an object with one property set or deleted
NoProps == [i \in {} |-> ""]

SetProp(obj, key, value) ==
  [i \in (DOMAIN obj) \cup {key} |-> IF i = key THEN value ELSE obj[i]]

DeleteProp(obj, key) == [i \in (DOMAIN obj) \ {key} |-> obj[i]]

NoReq ==
  [rid |-> 0, client |-> "c1", op |-> "none", kind |-> "none", pc |-> "start",
   listId |-> TheList, id |-> 0, text |-> <<>>, hasCompleted |-> FALSE,
   completed |-> FALSE, hasPosition |-> FALSE, position |-> 0,
   hasNotes |-> FALSE, notes |-> "", hasParent |-> FALSE, parentId |-> 0,
   userId |-> "c1", permission |-> "none",
   tempId |-> 0, overId |-> 0, above |-> FALSE, rows |-> <<>>,
   snap |-> NoItem, pre |-> <<>>, nextPosition |-> 0, data |-> NoItem,
   status |-> 0, cseq |-> 0]

Ops == {"create", "toggle", "delete", "drag", "notes", "admin"}

\* a row as INSERT ... RETURNING * gives it; the handlers never write parent_id
Row(id, listId, text, completed, position) ==
  [id |-> id, list_id |-> listId, text |-> text, completed |-> completed,
   position |-> position, notes |-> "", parent_id |-> NoParent]

\* the state after start-up: rows as createItem leaves them (positions 1..n in
\* order of insertion), the connected clients joined to the room of the list by
\* the connection handler and showing the rows as fetchItems returned them
InitWith(n, connected, perms) ==
  /\ db = {Row(i, TheList, <<"a">>, FALSE, i) : i \in 1..n}
  /\ nextId = n + 1
  /\ shares \in [Clients \ {Owner} -> perms]
  /\ rooms = [l \in {TheList} |-> connected]
  /\ reqs = {}
  /\ nextRid = 1
  /\ sockQ = [c \in Clients |-> <<>>]
  /\ cItems = [c \in Clients |->
                 IF c \in connected
                 THEN [i \in 1..n |-> Row(i, TheList, <<"a">>, FALSE, i)]
                 ELSE <<>>]
  /\ selected = [c \in Clients |-> IF c \in connected THEN TheList ELSE 0]
  /\ error = [c \in Clients |-> NoError]
  /\ crashed = {}
  /\ now = 1
  /\ issued = [o \in Ops |-> 0]
  /\ commits = 0
  /\ lastRecv = [c \in Clients |-> 0]
  /\ failed = FALSE
  /\ conn = [c \in Clients |-> IF c \in connected THEN "ready" ELSE "none"]
  /\ token = [c \in Clients |-> IF c \in connected THEN "valid" ELSE "none"]
  /\ lists = {TheList}
  /\ requestCounts = NoProps
  /\ lastStatus = 0
  /\ win = NoProps
  /\ notesTimer = [c \in Clients |-> NoProps]
  /\ editingNotes = [c \in Clients |-> NoProps]
  /\ expandedNotes = [c \in Clients |-> NoProps]

\* ----------------------------------------------------------------- server
\* a permission check that takes any share for an edit grant
canEditAnyShare(user) == user = Owner \/ shares[user] # "none"

\* permCheck of the item routes: the owner, or an edit share
canEdit(user) == user = Owner \/ shares[user] = "edit"

RowsOf(listId) == {row \in db : row.list_id = listId}

\* SELECT COALESCE(MAX(position), 0) + 1
NextPositionOf(listId) ==
  LET ps == {row.position : row \in RowsOf(listId)}
  IN  (IF ps = {} THEN 0 ELSE CHOOSE p \in ps : \A q \in ps : q <= p) + 1

\* an emit to every connection: io.emit(event, data)
emitToAll(listId, e) ==
  sockQ' = [c \in Clients |->
              IF conn[c] \in {"setup", "ready"} THEN Append(sockQ[c], e)
              ELSE sockQ[c]]

\* emitListUpdate: io.to(`list-${listId}`).emit(event, data)
emitListUpdate(listId, e) ==
  sockQ' = [c \in Clients |->
              IF c \in rooms[listId] THEN Append(sockQ[c], e) ELSE sockQ[c]]

Event(kind, listId, item, itemId, cseq) ==
  [kind |-> kind, listId |-> listId, item |-> item, itemId |-> itemId,
   cseq |-> cseq]

Step(r, r2) == reqs' = (reqs \ {r}) \cup {r2}

Respond(r, status) == Step(r, [r EXCEPT !.pc = "resp", !.status = status])

\* POST: the answer of the checks before the first write, 0 to go on
PostVerdict(r) ==
  IF Len(sanitizeInput(r.text)) < 1 THEN 400
  ELSE IF ~canEdit(r.client) THEN 403
  ELSE 0

\* POST /api/lists/:listId/items up to the first store query it awaits
PostStart(r) ==
  /\ r.kind = "POST" /\ r.pc = "start"
  /\ IF PostVerdict(r) # 0 THEN Respond(r, PostVerdict(r))
     ELSE Step(r, [r EXCEPT !.pc = "readPos", !.text = sanitizeInput(r.text)])
  /\ UNCHANGED <<serverVars, clientVars, fixedVars, notesVars, nextRid, sockQ, now, issued,
                 lastRecv, failed>>

\* a handler that publishes the new item before the INSERT is awaited
PostReadPosEmits(r) ==
  /\ r.kind = "POST" /\ r.pc = "readPos"
  /\ Step(r, [r EXCEPT !.pc = "insert", !.nextPosition = NextPositionOf(r.listId)])
  /\ emitListUpdate(r.listId,
       Event("item-created", r.listId,
             Row(nextId, r.listId, r.text, r.completed, NextPositionOf(r.listId)),
             0, 0))
  /\ UNCHANGED <<serverVars, clientVars, fixedVars, notesVars, nextRid, now, issued,
                 lastRecv, failed>>

PostReadPos(r) ==
  /\ r.kind = "POST" /\ r.pc = "readPos"
  /\ Step(r, [r EXCEPT !.pc = "insert", !.nextPosition = NextPositionOf(r.listId)])
  /\ UNCHANGED <<serverVars, clientVars, fixedVars, notesVars, nextRid, sockQ, now, issued,
                 lastRecv, failed>>

PostInsert(r) ==
  /\ r.kind = "POST" /\ r.pc = "insert"
  /\ LET newItem == Row(nextId, r.listId, r.text, r.completed, r.nextPosition)
     IN  /\ db' = db \cup {newItem}
         /\ Step(r, [r EXCEPT !.pc = "emit", !.data = newItem, !.cseq = commits + 1])
  /\ nextId' = nextId + 1
  /\ commits' = commits + 1
  /\ UNCHANGED <<clientVars, fixedVars, notesVars, nextRid, sockQ, now, issued, lastRecv, failed>>

PostEmit(r) ==
  /\ r.kind = "POST" /\ r.pc = "emit"
  /\ emitListUpdate(r.listId, Event("item-created", r.listId, r.data, 0, r.cseq))
  /\ Respond(r, 201)
  /\ UNCHANGED <<serverVars, clientVars, fixedVars, notesVars, nextRid, now, issued,
                 lastRecv, failed>>

\* permCheck of PUT and DELETE /api/items/:id: a temporary identifier is no
\* integer and the query throws (500); no row gives 404; 0 to go on
ItemVerdict(r) ==
  IF IsTemp(r.id) THEN 500
  ELSE IF ~\E row \in db : row.id = r.id THEN 404
  ELSE IF ~canEdit(r.client) THEN 403
  ELSE 0

ItemStart(r, nextPc) ==
  /\ r.pc = "start"
  /\ IF ItemVerdict(r) # 0 THEN Respond(r, ItemVerdict(r))
     ELSE Step(r, [r EXCEPT !.pc = nextPc,
                            !.listId = (CHOOSE row \in db : row.id = r.id).list_id])
  /\ UNCHANGED <<serverVars, clientVars, fixedVars, notesVars, nextRid, sockQ, now, issued,
                 lastRecv, failed>>

PutStart(r) == r.kind = "PUT" /\ ItemStart(r, "update")

\* an UPDATE that also stores the parent_id of the body
UpdatedWithParent(row, r) ==
  [row EXCEPT !.completed = IF r.hasCompleted THEN r.completed ELSE @,
              !.position = IF r.hasPosition THEN r.position ELSE @,
              !.notes = IF r.hasNotes THEN r.notes ELSE @,
              !.parent_id = IF r.hasParent THEN r.parentId ELSE @]

\* the row after UPDATE list_items SET ... : parent_id and list_id of the body
\* are not read by the handler
Updated(row, r) ==
  [row EXCEPT !.completed = IF r.hasCompleted THEN r.completed ELSE @,
              !.position = IF r.hasPosition THEN r.position ELSE @,
              !.notes = IF r.hasNotes THEN r.notes ELSE @]

\* UPDATE ... WHERE id = $n RETURNING *: no row, no result row (undefined)
PutUpdate(r) ==
  /\ r.kind = "PUT" /\ r.pc = "update"
  /\ IF \E row \in db : row.id = r.id
     THEN LET row == CHOOSE x \in db : x.id = r.id
              updatedItem == Updated(row, r)
          IN  /\ db' = (db \ {row}) \cup {updatedItem}
              /\ commits' = commits + 1
              /\ Step(r, [r EXCEPT !.pc = "emit", !.data = updatedItem,
                                   !.cseq = commits + 1])
     ELSE /\ UNCHANGED <<db, commits>>
          /\ Step(r, [r EXCEPT !.pc = "emit", !.data = NoItem])
  /\ UNCHANGED <<nextId, clientVars, fixedVars, notesVars, nextRid, sockQ, now, issued,
                 lastRecv, failed>>

PutEmit(r) ==
  /\ r.kind = "PUT" /\ r.pc = "emit"
  /\ emitListUpdate(r.listId, Event("item-updated", r.listId, r.data, 0, r.cseq))
  /\ Respond(r, 200)
  /\ UNCHANGED <<serverVars, clientVars, fixedVars, notesVars, nextRid, now, issued,
                 lastRecv, failed>>

DeleteStart(r) == r.kind = "DELETE" /\ ItemStart(r, "delete")

DeleteRow(r) ==
  /\ r.kind = "DELETE" /\ r.pc = "delete"
  /\ IF \E row \in db : row.id = r.id
     THEN /\ db' = {row \in db : row.id # r.id}
          /\ commits' = commits + 1
          /\ Step(r, [r EXCEPT !.pc = "emit", !.cseq = commits + 1])
     ELSE /\ UNCHANGED <<db, commits>>
          /\ Step(r, [r EXCEPT !.pc = "emit"])
  /\ UNCHANGED <<nextId, clientVars, fixedVars, notesVars, nextRid, sockQ, now, issued,
                 lastRecv, failed>>

DeleteEmit(r) ==
  /\ r.kind = "DELETE" /\ r.pc = "emit"
  /\ emitListUpdate(r.listId, Event("item-deleted", r.listId, NoItem, r.id, r.cseq))
  /\ Respond(r, 200)
  /\ UNCHANGED <<serverVars, clientVars, fixedVars, notesVars, nextRid, now, issued,
                 lastRecv, failed>>

\* a store query of the handler throws: the catch block answers 500, nothing
\* is written and nothing is emitted
QueryFails(r) ==
  /\ r.kind \in {"POST", "PUT", "DELETE"}
  /\ r.pc \in {"start", "readPos", "insert", "update", "delete"}
  /\ r.pc = "start" /\ r.kind = "POST" => Len(sanitizeInput(r.text)) >= 1
  /\ Respond(r, 500)
  /\ UNCHANGED <<serverVars, clientVars, fixedVars, notesVars, nextRid, sockQ, now,
                 issued, lastRecv, failed>>

\* ------------------------------------- server: a handler run as one step
\* (the steps above with no other handler between them)
HandlePost(r) ==
  /\ r.kind = "POST" /\ r.pc = "start"
  /\ IF PostVerdict(r) # 0
     THEN Respond(r, PostVerdict(r)) /\ UNCHANGED <<serverVars, sockQ>>
     ELSE LET newItem == Row(nextId, r.listId, sanitizeInput(r.text), r.completed,
                             NextPositionOf(r.listId))
          IN  /\ db' = db \cup {newItem}
              /\ nextId' = nextId + 1
              /\ commits' = commits + 1
              /\ emitListUpdate(r.listId,
                   Event("item-created", r.listId, newItem, 0, commits + 1))
              /\ Step(r, [r EXCEPT !.pc = "resp", !.status = 201, !.data = newItem,
                                   !.cseq = commits + 1])
  /\ UNCHANGED <<clientVars, fixedVars, notesVars, nextRid, now, issued, lastRecv, failed>>

HandlePut(r) ==
  /\ r.kind = "PUT" /\ r.pc = "start"
  /\ IF ItemVerdict(r) # 0
     THEN Respond(r, ItemVerdict(r)) /\ UNCHANGED <<serverVars, sockQ>>
     ELSE LET row == CHOOSE x \in db : x.id = r.id
              updatedItem == Updated(row, r)
          IN  /\ db' = (db \ {row}) \cup {updatedItem}
              /\ commits' = commits + 1
              /\ emitListUpdate(row.list_id,
                   Event("item-updated", row.list_id, updatedItem, 0, commits + 1))
              /\ Step(r, [r EXCEPT !.pc = "resp", !.status = 200,
                                   !.data = updatedItem, !.cseq = commits + 1])
              /\ UNCHANGED nextId
  /\ UNCHANGED <<clientVars, fixedVars, notesVars, nextRid, now, issued, lastRecv, failed>>

HandleDelete(r) ==
  /\ r.kind = "DELETE" /\ r.pc = "start"
  /\ IF ItemVerdict(r) # 0
     THEN Respond(r, ItemVerdict(r)) /\ UNCHANGED <<serverVars, sockQ>>
     ELSE LET row == CHOOSE x \in db : x.id = r.id
          IN  /\ db' = db \ {row}
              /\ commits' = commits + 1
              /\ emitListUpdate(row.list_id,
                   Event("item-deleted", row.list_id, NoItem, r.id, commits + 1))
              /\ Step(r, [r EXCEPT !.pc = "resp", !.status = 200,
                                   !.cseq = commits + 1])
              /\ UNCHANGED nextId
  /\ UNCHANGED <<clientVars, fixedVars, notesVars, nextRid, now, issued, lastRecv, failed>>

\* ----------------------------------------------------------------- client
Send(r) ==
  /\ reqs' = reqs \cup {[r EXCEPT !.rid = nextRid]}
  /\ nextRid' = nextRid + 1

Took(op) == issued' = [issued EXCEPT ![op] = @ + 1]

\* createItem(parentId) with the text of the input and the clock reading t
createItem(c, text, parentId, t) ==
  /\ c \notin crashed
  /\ trim(text) # <<>> /\ selected[c] # 0
  /\ LET tmp == tempItem(t, text, selected[c], cItems[c], parentId)
     IN  /\ cItems' = [cItems EXCEPT ![c] = InsertTemp(@, tmp)]
         /\ Send([NoReq EXCEPT !.client = c, !.op = "create", !.kind = "POST",
                               !.listId = selected[c], !.text = text,
                               !.tempId = tmp.id, !.pre = cItems[c]])
  /\ Took("create")
  /\ UNCHANGED <<serverVars, fixedVars, notesVars, sockQ, error, crashed, lastRecv, failed>>

\* toggleItemComplete(item), item an entry of the rendered list
toggleItemComplete(c, item) ==
  /\ c \notin crashed
  /\ cItems' = [cItems EXCEPT ![c] = ToggleApply(@, item.id)]
  /\ Send([NoReq EXCEPT !.client = c, !.op = "toggle", !.kind = "PUT",
                        !.id = item.id, !.hasCompleted = TRUE,
                        !.completed = ~item.completed, !.snap = item,
                        !.pre = cItems[c]])
  /\ Took("toggle")
  /\ UNCHANGED <<serverVars, fixedVars, notesVars, sockQ, error, crashed, now, lastRecv, failed>>

\* deleteItem(itemId), itemId the identifier of an entry of the rendered list
deleteItem(c, itemId) ==
  /\ c \notin crashed
  /\ LET deletedItem == FindFirst(cItems[c], LAMBDA i : i.id = itemId)
     IN  /\ deletedItem # NoItem
         /\ cItems' = [cItems EXCEPT ![c] = DeleteApply(@, itemId)]
         /\ Send([NoReq EXCEPT !.client = c, !.op = "delete", !.kind = "DELETE",
                               !.id = itemId, !.snap = deletedItem,
                               !.pre = cItems[c]])
  /\ editingNotes' = [editingNotes EXCEPT ![c] = DeleteProp(@, itemId)]
  /\ expandedNotes' = [expandedNotes EXCEPT ![c] = DeleteProp(@, itemId)]
  /\ Took("delete")
  /\ UNCHANGED <<serverVars, fixedVars, sockQ, error, crashed, now, lastRecv, failed>>

\* handleDragEnd for a drop of active on over
handleDragEnd(c, activeId, overId, shouldNest, droppingAbove) ==
  /\ c \notin crashed
  /\ LET out == DragOutcome(cItems[c], activeId, overId, shouldNest, droppingAbove)
     IN  /\ error' = IF out.error = "keep" THEN error
                     ELSE [error EXCEPT ![c] = out.error]
         /\ IF out.send = "none" THEN UNCHANGED <<reqs, nextRid>>
            ELSE Send([NoReq EXCEPT !.client = c, !.op = out.send, !.kind = "PUT",
                                    !.id = activeId,
                                    !.hasPosition = (out.send = "move"),
                                    !.position = out.position,
                                    !.pre = cItems[c],
                                    !.overId = overId,
                                    !.above = droppingAbove,
                                    !.hasParent = TRUE,
                                    !.parentId =
                                      IF out.send = "nest" THEN overId
                                      ELSE FindFirst(cItems[c],
                                             LAMBDA x : x.id = overId).parent_id])
  /\ Took("drag")
  /\ UNCHANGED <<serverVars, fixedVars, notesVars, sockQ, cItems, crashed, now, lastRecv,
                 failed>>

\* the message the catch block of each caller shows for a failed request
ErrorShown(r) ==
  IF r.op = "deleteList" THEN "Failed to delete list"
  ELSE IF r.op = "share" THEN "Not authorized to share this list"
  ELSE IF r.op = "unshare" THEN "Failed to remove share"
  ELSE IF r.status = 403 THEN ErrView
  ELSE CASE r.op = "create" -> ErrCreate
         [] r.op = "toggle" -> ErrUpdate
         [] r.op = "delete" -> ErrDelete
         [] r.op = "notes" -> ErrNotes
         [] OTHER -> IF r.status = 404 THEN "Item not found" ELSE ErrUpdate

\* the items state after the continuation of the caller has run
AfterResponse(items, r) ==
  IF r.status < 400
  THEN CASE r.op = "create" -> ReplaceTemp(items, r.tempId, r.data)
         [] r.op = "notes" -> NotesSaved(items, r.id, r.notes)
         [] OTHER -> items
  ELSE CASE r.op = "create" -> RemoveTemp(items, r.tempId)
         [] r.op = "toggle" -> ToggleRollback(items, r.snap.id, r.snap.completed)
         [] r.op = "delete" -> DeleteRollback(items, r.snap)
         [] OTHER -> items

\* the response reaches the client: the code after the await, or the catch
DeliverResponse(r) ==
  /\ r.pc = "resp"
  /\ reqs' = reqs \ {r}
  /\ IF r.client \in crashed THEN UNCHANGED <<cItems, error>>
     ELSE /\ cItems' = [cItems EXCEPT ![r.client] = AfterResponse(@, r)]
          /\ error' = IF r.status < 400 THEN error
                      ELSE [error EXCEPT ![r.client] = ErrorShown(r)]
  /\ failed' = (failed \/ r.status >= 400)
  /\ UNCHANGED <<serverVars, fixedVars, notesVars, nextRid, sockQ, crashed, now, issued,
                 lastRecv>>

\* the selectedList that the handlers of list-deleted and share-removed read:
\* the state variable as initializeSocket closed over it, not the ref; every
\* call of initializeSocket (on mount, after login) runs in a render in which
\* no list is selected
ClosureSelected == 0

\* socket.on('list-deleted'): setItems([]) when the list is the selected one
OnListDeleted(items, listId) == IF ClosureSelected = listId THEN <<>> ELSE items

\* the items state after the socket handler of e has run
AfterEvent(items, e, pendingNotes) ==
  CASE e.kind = "item-created" -> OnItemCreated(items, e.item)
    [] e.kind = "item-updated" -> OnItemUpdated(items, e.item, pendingNotes)
    [] e.kind = "item-deleted" -> OnItemDeleted(items, e.itemId)
    [] e.kind = "list-deleted" -> OnListDeleted(items, e.listId)
    [] OTHER -> items

\* the editingNotes state after the socket handler of e has run: item-updated
\* copies the notes of the event into a field that is shown and has no timer
\* pending, item-deleted drops the entry of the item
EditingAfterEvent(editing, e, pendingNotes, expanded) ==
  CASE e.kind = "item-updated" ->
         IF /\ e.item.id \notin pendingNotes
            /\ e.item.id \in DOMAIN expanded
            /\ expanded[e.item.id]
         THEN SetProp(editing, e.item.id, e.item.notes)
         ELSE editing
    [] e.kind = "item-deleted" -> DeleteProp(editing, e.itemId)
    [] OTHER -> editing

\* an item-updated event whose item is undefined makes the updater throw a
\* TypeError on data.item.id
Throws(e) == e.kind = "item-updated" /\ e.item = NoItem

\* the next event of the connection is handled
DeliverEvent(c) ==
  /\ sockQ[c] # <<>>
  /\ LET e == Head(sockQ[c])
     IN  /\ sockQ' = [sockQ EXCEPT ![c] = Tail(@)]
         /\ lastRecv' = IF e.cseq = 0 THEN lastRecv
                        ELSE [lastRecv EXCEPT ![c] = e.cseq]
         /\ IF c \in crashed \/ selected[c] # e.listId
            THEN UNCHANGED <<cItems, crashed, notesVars>>
            ELSE IF Throws(e)
            THEN crashed' = crashed \cup {c} /\ UNCHANGED <<cItems, notesVars>>
            ELSE /\ cItems' = [cItems EXCEPT ![c] =
                                AfterEvent(@, e, DOMAIN notesTimer[c])]
                 /\ editingNotes' = [editingNotes EXCEPT ![c] =
                      EditingAfterEvent(@, e, DOMAIN notesTimer[c], expandedNotes[c])]
                 /\ expandedNotes' = [expandedNotes EXCEPT ![c] =
                      IF e.kind = "item-deleted" THEN DeleteProp(@, e.itemId) ELSE @]
                 /\ UNCHANGED crashed
  /\ UNCHANGED <<serverVars, fixedVars, reqs, nextRid, error, now, issued, failed>>

\* ------------------------------------------------- SpecOrder: one client
\* rows created through createItem, shown by the one connected client
InitOrder == InitWith(OrderRows, {"c1"}, {"none"})

LocalIds(c) == {x.id : x \in Range(cItems[c])}

InFlight(c) == Cardinality({r \in reqs : r.client = c})

OrderTaken == issued["create"] + issued["drag"]

OrderCreate ==
  /\ OrderTaken < OrderMaxActions
  /\ \E parentId \in {NoParent} \cup LocalIds("c1") :
       createItem("c1", <<"a">>, parentId, now)
  /\ now' = now + 1

OrderDrag ==
  /\ OrderTaken < OrderMaxActions
  /\ \E a \in LocalIds("c1"), o \in LocalIds("c1"), nest \in BOOLEAN, above \in BOOLEAN :
       handleDragEnd("c1", a, o, nest, above)

OrderServer == \E r \in reqs : HandlePost(r) \/ HandlePut(r)

OrderDeliver == (\E r \in reqs : DeliverResponse(r)) \/ DeliverEvent("c1")

NextOrder == OrderCreate \/ OrderDrag \/ OrderServer \/ OrderDeliver

SpecOrder == InitOrder /\ [][NextOrder]_vars

\* ------------------------------- SpecMoves: one client, one action at a time
InitMoves == InitWith(0, {"c1"}, {"none"})

\* nothing of the client is under way: no request, no event to handle
Quiet(c) == InFlight(c) = 0 /\ sockQ[c] = <<>>

MovesCreate ==
  /\ issued["create"] < MovesMaxCreates
  /\ Quiet("c1")
  /\ createItem("c1", <<"a">>, NoParent, now)
  /\ now' = now + 1

MovesDrag ==
  /\ issued["drag"] < MovesMaxDrags
  /\ Quiet("c1")
  /\ \E a \in LocalIds("c1"), o \in LocalIds("c1"), nest \in BOOLEAN, above \in BOOLEAN :
       handleDragEnd("c1", a, o, nest, above)

MovesServer == \E r \in reqs : HandlePost(r) \/ HandlePut(r)

MovesDeliver == (\E r \in reqs : DeliverResponse(r)) \/ DeliverEvent("c1")

NextMoves == MovesCreate \/ MovesDrag \/ MovesServer \/ MovesDeliver

SpecMoves == InitMoves /\ [][NextMoves]_vars

\* ------------------------------------------------------------ C1 and C2
\* the parents, in the local list, of the entries named by ids
UpStep(items, ids) ==
  {x.parent_id : x \in {y \in Range(items) : y.id \in ids}} \ {NoParent}

RECURSIVE UpClosure(_, _)
UpClosure(items, ids) ==
  LET nxt == ids \cup UpStep(items, ids)
  IN  IF nxt = ids THEN ids ELSE UpClosure(items, nxt)

\* b is a descendant of a: a is reached from b along parent links
IsDescendantOf(items, b, a) == a \in UpClosure(items, UpStep(items, {b}))

\* C1: after any sequence of moves, starting from items created through
\* createItem, no two persisted items with the same parent have equal position
C1_SiblingPositionsDistinct ==
  \A x, y \in db :
    (x.id # y.id /\ x.list_id = y.list_id /\ x.parent_id = y.parent_id)
      => x.position # y.position

\* C2: a drop of A on B, B a descendant of A in the list the client shows, is
\* rejected with the error of its own, sends no update and changes neither the
\* persisted rows nor the local items
C2_CycleMoveRejected ==
  [][\A c \in Clients : \A a, o \in LocalIds(c) : \A nest, above \in BOOLEAN :
       (IsDescendantOf(cItems[c], o, a) /\ handleDragEnd(c, a, o, nest, above))
         => /\ reqs' = reqs
            /\ db' = db
            /\ cItems' = cItems
            /\ error'[c] = ErrCycle]_vars

\* a rejected drop: the dragged item has a descendant at depth two and the
\* cycle error is shown
C2_Witness ==
  /\ error["c1"] = ErrCycle
  /\ \E a, o \in LocalIds("c1") :
       /\ IsDescendantOf(cItems["c1"], o, a)
       /\ \E x \in Range(cItems["c1"]) : x.id = o /\ x.parent_id # a

\* ------------------------- SpecConc: two clients, handlers run concurrently
\* both clients connected and showing the list, c2 holding an edit share
InitConc == InitWith(ConcRows, Clients, {"edit"})

ConcIssued == issued["create"] + issued["toggle"]

ConcCreate ==
  /\ ConcIssued < ConcMaxRequests
  /\ \E c \in Clients : createItem(c, <<"a">>, NoParent, now)
  /\ now' = now + 1

ConcToggle ==
  /\ ConcIssued < ConcMaxRequests
  /\ \E c \in Clients : \E item \in Range(cItems[c]) :
       ~IsTemp(item.id) /\ toggleItemComplete(c, item)

ConcPost ==
  \E r \in reqs : PostStart(r) \/ PostReadPos(r) \/ PostInsert(r) \/ PostEmit(r)

ConcPut == \E r \in reqs : PutStart(r) \/ PutUpdate(r) \/ PutEmit(r)

ConcResponse == \E r \in reqs : DeliverResponse(r)

ConcEvent == \E c \in Clients : DeliverEvent(c)

NextConc ==
  ConcCreate \/ ConcToggle \/ ConcPost \/ ConcPut \/ ConcResponse \/ ConcEvent

SpecConc == InitConc /\ [][NextConc]_vars

\* ------------------------------------------------------- C3, C4 and C6
\* C3: once the createItem requests handled concurrently are all answered, the
\* store holds one new row per request and the positions of the rows of the
\* list are pairwise distinct
C3_ConcurrentCreatesDistinct ==
  (\A r \in reqs : r.kind = "POST" => r.pc = "resp")
    => /\ Cardinality(db) = ConcRows + issued["create"]
       /\ \A x, y \in RowsOf(TheList) : x.id # y.id => x.position # y.position

\* C4: every connection handles the events of a list in the order in which
\* their mutations were committed: the commit number of the event handled
\* never goes down
C4_EventsInCommitOrder ==
  [][\A c \in Clients : lastRecv'[c] >= lastRecv[c]]_vars

\* nothing is under way anywhere and no request was answered with an error
Settled ==
  /\ reqs = {}
  /\ \A c \in Clients : sockQ[c] = <<>>
  /\ ~failed

\* C6: once no request is in flight and every emitted event was handled, no
\* request having failed, each connected client showing the list holds exactly
\* the persisted rows of the list, with their persisted field values
C6_ClientsConverge ==
  Settled =>
    \A c \in rooms[TheList] \ crashed :
      selected[c] = TheList => Range(cItems[c]) = RowsOf(TheList)

\* ------------------------- SpecCreate: optimistic creates and their failures
\* c1 types and creates; c2 shows the same list and receives the events
InitCreate == InitWith(CreateRows, Clients, {"edit"})

CreateCall ==
  /\ issued["create"] < CreateMaxCreates
  /\ \E text \in Texts : createItem("c1", text, NoParent, now)
  /\ now' = now + 1

CreateServer == \E r \in reqs : HandlePost(r)

CreateResponse == \E r \in reqs : DeliverResponse(r)

CreateEvent == \E c \in Clients : DeliverEvent(c)

NextCreate == CreateCall \/ CreateServer \/ CreateResponse \/ CreateEvent

SpecCreate == InitCreate /\ [][NextCreate]_vars

\* ------------------------------------------------------------ C5 and C8
\* C5: after the one createItem of a run was answered without error and its
\* response and its echo were both handled, in either order, the list of the
\* creating client has exactly one entry with the identifier of the new row and
\* no temporary entry
C5_SingleCreateReconciled ==
  (/\ issued["create"] = 1
   /\ reqs = {} /\ sockQ["c1"] = <<>>
   /\ ~failed)
    => /\ Count(cItems["c1"], LAMBDA x : x.id = CreateRows + 1) = 1
       /\ \A x \in Range(cItems["c1"]) : ~IsTemp(x.id)

\* the list of r's client is as createItem left it: the list before the call
\* followed by the temporary item
AsCreateLeftIt(r) ==
  LET items == cItems[r.client]
  IN  /\ Len(items) = Len(r.pre) + 1
      /\ SubSeq(items, 1, Len(r.pre)) = r.pre
      /\ items[Len(items)].id = r.tempId

EventsEntries ==
  {[Row(id, TheList, text, FALSE, position) EXCEPT !.notes = notes] :
     id \in {1, 2}, text \in {<<"a">>, <<"b">>}, position \in {1, 2},
     notes \in {""}}
  \cup
  {[tempItem(t, text, TheList, <<>>, NoParent) EXCEPT !.position = position] :
     t \in {1, 2}, text \in {<<"a">>, <<"b">>}, position \in {1, 2}}

\* the local lists: at most EventsMaxLen entries, no identifier twice
EventsLists ==
  {items \in UNION {[1..n -> EventsEntries] : n \in 0..EventsMaxLen} :
     \A i, j \in DOMAIN items : i # j => items[i].id # items[j].id}

\* the events of the list: for a row that may be shown and for one that is not
EventsRows ==
  {Row(id, TheList, text, completed, position) :
     id \in {1, 3}, text \in {<<"a">>, <<"b">>}, completed \in BOOLEAN,
     position \in {1, 2}}

EventsDrawn ==
  {Event(kind, TheList, item, 0, 1) :
     kind \in {"item-created", "item-updated"}, item \in EventsRows}
  \cup {Event("item-deleted", TheList, NoItem, id, 1) : id \in {1, 3}}

\* c1 shows a drawn list and has the same drawn event twice in a row to handle
InitEvents ==
  /\ db = {} /\ nextId = 1
  /\ shares = [c \in Clients \ {Owner} |-> "none"]
  /\ rooms = [l \in {TheList} |-> {"c1"}]
  /\ reqs = {} /\ nextRid = 1
  /\ \E items \in EventsLists, e \in EventsDrawn :
       /\ cItems = [c \in Clients |-> IF c = "c1" THEN items ELSE <<>>]
       /\ sockQ = [c \in Clients |-> IF c = "c1" THEN <<e, e>> ELSE <<>>]
  /\ selected = [c \in Clients |-> IF c = "c1" THEN TheList ELSE 0]
  /\ error = [c \in Clients |-> NoError]
  /\ crashed = {}
  /\ now = 1
  /\ issued = [o \in Ops |-> 0]
  /\ commits = 1
  /\ lastRecv = [c \in Clients |-> 0]
  /\ failed = FALSE
  /\ conn = [c \in Clients |-> IF c = "c1" THEN "ready" ELSE "none"]
  /\ token = [c \in Clients |-> IF c = "c1" THEN "valid" ELSE "none"]
  /\ lists = {TheList}
  /\ requestCounts = NoProps
  /\ lastStatus = 0
  /\ win = NoProps
  /\ notesTimer = [c \in Clients |-> NoProps]
  /\ editingNotes = [c \in Clients |-> NoProps]
  /\ expandedNotes = [c \in Clients |-> NoProps]

EventsDeliver == DeliverEvent("c1")

NextEvents == EventsDeliver

SpecEvents == InitEvents /\ [][NextEvents]_vars

\* ------------------------------------------------------------------- C7
\* C7: handling an item-created, item-updated or item-deleted event a second
\* time in a row leaves the local list as the first handling left it
C7_ReconciliationIdempotent ==
  [][\A c \in Clients :
       (/\ DeliverEvent(c)
        /\ Head(sockQ[c]).cseq = lastRecv[c]
        /\ Head(sockQ[c]).kind \in {"item-created", "item-updated", "item-deleted"})
         => cItems'[c] = cItems[c]]_vars

\* both copies of an item-created event were handled by a list that had a
\* temporary entry with the text of the event
C7_Witness ==
  /\ sockQ["c1"] = <<>>
  /\ lastRecv["c1"] = commits
  /\ reqs = {} /\ db = {}
  /\ \E x, y \in Range(cItems["c1"]) : x.id = 3 /\ IsTemp(y.id) /\ x.text = y.text

\* ------------------- SpecRollback: toggles and deletes that may be refused
\* both clients show the list; c2 holds a view or an edit share, so its
\* requests are refused with 403, or with 404 once the row is gone
InitRollback == InitWith(RollRows, Clients, {"view", "edit"})

RollIssued == issued["toggle"] + issued["delete"]

RollToggle ==
  /\ RollIssued < RollMaxRequests
  /\ \E c \in Clients : \E item \in Range(cItems[c]) : toggleItemComplete(c, item)

RollDelete ==
  /\ RollIssued < RollMaxRequests
  /\ \E c \in Clients : \E itemId \in LocalIds(c) : deleteItem(c, itemId)

RollServer == \E r \in reqs : HandlePut(r) \/ HandleDelete(r)

RollResponse == \E r \in reqs : DeliverResponse(r)

RollEvent == \E c \in Clients : DeliverEvent(c)

NextRollback == RollToggle \/ RollDelete \/ RollServer \/ RollResponse \/ RollEvent

SpecRollback == InitRollback /\ [][NextRollback]_vars

C10_ToggleRollback ==
  [][\A r \in reqs :
       (DeliverResponse(r) /\ r.op = "toggle" /\ r.status >= 400)
         => LET before == cItems[r.client]
                after == cItems'[r.client]
            IN  /\ Len(after) = Len(before)
                /\ \A i \in DOMAIN before :
                     after[i] = IF before[i].id = r.id
                                THEN [before[i] EXCEPT !.completed = r.snap.completed]
                                ELSE before[i]]_vars

\* two toggles of one item by the viewer were both refused and rolled back,
\* the second to the value the first had set
C10_Witness ==
  /\ error["c2"] = ErrView
  /\ issued["delete"] = 0 /\ issued["toggle"] >= 2
  /\ reqs = {}
  /\ \E x \in Range(cItems["c2"]) : x.completed
  /\ \A row \in db : ~row.completed

\* --------------- SpecStore: requests one at a time, store queries may throw
\* c1 acts; c2 is joined to the room and has not handled any event yet, so
\* its queue holds every event in the order of emission
InitStore == InitWith(StoreRows, Clients, {"edit"})

StoreIssued == issued["create"] + issued["toggle"] + issued["delete"]

StoreCallCreate ==
  /\ StoreIssued < StoreMaxRequests /\ reqs = {}
  /\ createItem("c1", <<"a">>, NoParent, now)
  /\ now' = now + 1

StoreCallToggle ==
  /\ StoreIssued < StoreMaxRequests /\ reqs = {}
  /\ \E item \in Range(cItems["c1"]) : toggleItemComplete("c1", item)

StoreCallDelete ==
  /\ StoreIssued < StoreMaxRequests /\ reqs = {}
  /\ \E itemId \in LocalIds("c1") : deleteItem("c1", itemId)

StorePost ==
  \E r \in reqs : PostStart(r) \/ PostReadPos(r) \/ PostInsert(r) \/ PostEmit(r)

StorePut == \E r \in reqs : PutStart(r) \/ PutUpdate(r) \/ PutEmit(r)

StoreDel == \E r \in reqs : DeleteStart(r) \/ DeleteRow(r) \/ DeleteEmit(r)

StoreFailure == \E r \in reqs : QueryFails(r)

StoreResponse == \E r \in reqs : DeliverResponse(r)

StoreEvent == DeliverEvent("c1")

NextStore ==
  \/ StoreCallCreate \/ StoreCallToggle \/ StoreCallDelete
  \/ StorePost \/ StorePut \/ StoreDel \/ StoreFailure
  \/ StoreResponse \/ StoreEvent

SpecStore == InitStore /\ [][NextStore]_vars

\* ------------------------------------------------------------------ C11
\* C11: every event emitted belongs to a store write that has succeeded, no
\* write has two events, and a request answered 500 because a query threw has
\* written nothing and emitted nothing
C11_EmitOnlyAfterWrite ==
  LET log == sockQ["c2"]
  IN  /\ \A i \in DOMAIN log : log[i].cseq \in 1..commits
      /\ \A i, j \in DOMAIN log : i < j => log[i].cseq < log[j].cseq
      /\ Len(log) <= commits
      /\ \A r \in reqs : r.status = 500 => r.cseq = 0

\* a write failed, the request was made again, and its write and event happened
C11_Witness ==
  /\ failed
  /\ commits >= 1
  /\ Len(sockQ["c2"]) = commits
  /\ Cardinality(db) > StoreRows
  /\ error["c1"] = ErrCreate

\* ------ SpecStale: two editors, creates, toggles and deletes run concurrently
InitStale == InitWith(StaleRows, Clients, {"edit"})

StaleIssued == issued["create"] + issued["toggle"] + issued["delete"]

StaleCallCreate ==
  /\ StaleIssued < StaleMaxRequests
  /\ \E c \in Clients : createItem(c, <<"a">>, NoParent, now)
  /\ now' = now + 1

StaleCallToggle ==
  /\ StaleIssued < StaleMaxRequests
  /\ \E c \in Clients : \E item \in Range(cItems[c]) :
       ~IsTemp(item.id) /\ toggleItemComplete(c, item)

StaleCallDelete ==
  /\ StaleIssued < StaleMaxRequests
  /\ \E c \in Clients : \E itemId \in LocalIds(c) :
       ~IsTemp(itemId) /\ deleteItem(c, itemId)

StalePost ==
  \E r \in reqs : PostStart(r) \/ PostReadPos(r) \/ PostInsert(r) \/ PostEmit(r)

StalePut == \E r \in reqs : PutStart(r) \/ PutUpdate(r) \/ PutEmit(r)

StaleDel == \E r \in reqs : DeleteStart(r) \/ DeleteRow(r) \/ DeleteEmit(r)

StaleResponse == \E r \in reqs : DeliverResponse(r)

StaleEvent == \E c \in Clients : DeliverEvent(c)

NextStale ==
  \/ StaleCallCreate \/ StaleCallToggle \/ StaleCallDelete
  \/ StalePost \/ StalePut \/ StaleDel \/ StaleResponse \/ StaleEvent

SpecStale == InitStale /\ [][NextStale]_vars

\* ---------------------------------------------------------- C12 and C14
\* the step in which the handler of r emits its event and reports success
ReportsSuccess(r) == PostEmit(r) \/ PutEmit(r) \/ DeleteEmit(r)

\* C12: a request that reports success has changed one persisted row, and in
\* that step every member of the room of its list gets exactly one event:
\* item-created and item-updated with the persisted record, item-deleted with
\* the identifier of the item
C12_OneWriteOneEvent ==
  [][\A r \in reqs :
       ReportsSuccess(r)
         => /\ r.cseq # 0
            /\ \A c \in rooms[r.listId] :
                 /\ Len(sockQ'[c]) = Len(sockQ[c]) + 1
                 /\ LET e == sockQ'[c][Len(sockQ'[c])]
                    IN  /\ e.listId = r.listId
                        /\ e.kind \in {"item-created", "item-updated"}
                             => e.item = r.data /\ e.item.id > 0
                                /\ (r.kind = "POST" => e.item \in db)
                        /\ e.kind = "item-deleted" => e.itemId = r.id]_vars

\* C14: a PUT or DELETE whose write found no row is answered 404, and no event
\* is emitted for it
C14_StaleWriteIsNotFound ==
  /\ \A r \in reqs :
       (r.kind \in {"PUT", "DELETE"} /\ r.pc = "resp" /\ r.cseq = 0)
         => r.status = 404
  /\ \A c \in Clients : \A i \in DOMAIN sockQ[c] :
       sockQ[c][i].kind \in {"item-updated", "item-deleted"}
         => sockQ[c][i].cseq # 0

\* ------ SpecDenied: c2 holds a view share, or its share was removed after it
\* ------ had loaded the list; the owner edits meanwhile
InitDenied == InitWith(DeniedRows, Clients, {"view", "none"})

DeniedIssued == issued["create"] + issued["toggle"] + issued["delete"]

DeniedCallCreate ==
  /\ DeniedIssued < DeniedMaxRequests
  /\ \E text \in Texts : createItem("c2", text, NoParent, now)
  /\ now' = now + 1

DeniedCallToggle ==
  /\ DeniedIssued < DeniedMaxRequests
  /\ \E c \in Clients : \E item \in Range(cItems[c]) :
       ~IsTemp(item.id) /\ toggleItemComplete(c, item)

DeniedCallDelete ==
  /\ DeniedIssued < DeniedMaxRequests
  /\ \E itemId \in LocalIds("c2") : ~IsTemp(itemId) /\ deleteItem("c2", itemId)

DeniedPost == \E r \in reqs : HandlePost(r)

DeniedPut == \E r \in reqs : HandlePut(r)

DeniedDel == \E r \in reqs : HandleDelete(r)

DeniedResponse == \E r \in reqs : DeliverResponse(r)

DeniedEvent == \E c \in Clients : DeliverEvent(c)

NextDenied ==
  \/ DeniedCallCreate \/ DeniedCallToggle \/ DeniedCallDelete
  \/ DeniedPost \/ DeniedPut \/ DeniedDel \/ DeniedResponse \/ DeniedEvent

SpecDenied == InitDenied /\ [][NextDenied]_vars

\* ------------------------------------------------------------------ C13
\* r is a request of a user who neither owns the list nor holds an edit share
\* on it, for a new item or for an item that exists
Ungranted(r) ==
  /\ r.pc = "start"
  /\ r.client # Owner /\ shares[r.client] # "edit"
  /\ r.kind \in {"PUT", "DELETE"} => \E row \in db : row.id = r.id

Handles(r) == HandlePost(r) \/ HandlePut(r) \/ HandleDelete(r)

Answered(r, status) == [r EXCEPT !.pc = "resp", !.status = status] \in reqs'

\* C13 as stated: every such request is answered with the permission error,
\* changes no persisted item and emits no event
C13_UngrantedIsForbidden ==
  [][\A r \in reqs :
       Ungranted(r) /\ Handles(r)
         => Answered(r, 403) /\ db' = db /\ sockQ' = sockQ]_vars

\* C13 as amended: every such request is rejected, changes no persisted item
\* and emits no event; the answer is the validation error 400 when the text of
\* a create is empty after sanitization, the permission error 403 otherwise
C13_UngrantedIsRejected ==
  [][\A r \in reqs :
       Ungranted(r) /\ Handles(r)
         => /\ Answered(r, IF r.kind = "POST" /\ Len(sanitizeInput(r.text)) < 1
                           THEN 400 ELSE 403)
            /\ db' = db /\ sockQ' = sockQ]_vars

\* c2 was refused its delete and shown the permission message, after the owner
\* had changed the row; the row is still there
C13_Witness ==
  /\ error["c2"] = ErrView
  /\ commits >= 1
  /\ issued["delete"] = 1
  /\ Cardinality(db) = DeniedRows

\* ------ SpecRooms: the owner is connected and toggles its items; the other
\* ------ user connects, joins and leaves rooms, and may lose its share
Tokens == {"valid", "invalid", "missing"}

ListIds == {TheList}

\* the lists the connection query selects for the user: owned or shared
HasAccess(user, listId) == user = Owner \/ shares[user] # "none"

\* a handshake that takes any token that is present
HandshakeUnverified(c, t) ==
  /\ conn[c] = "none"
  /\ token' = [token EXCEPT ![c] = t]
  /\ conn' = [conn EXCEPT ![c] = IF t = "missing" THEN "rejected" ELSE "setup"]
  /\ UNCHANGED <<serverVars, clientVars, notesVars, shares, rooms, selected,
                 lists, limitVars, notesTimer, reqs, nextRid, sockQ, now, issued, lastRecv,
                 failed>>

\* io.use: no token, or a token jwt.verify throws on, is an authentication error
Handshake(c, t) ==
  /\ conn[c] = "none"
  /\ token' = [token EXCEPT ![c] = t]
  /\ conn' = [conn EXCEPT ![c] = IF t = "valid" THEN "setup" ELSE "rejected"]
  /\ UNCHANGED <<serverVars, clientVars, notesVars, shares, rooms, selected,
                 lists, limitVars, notesTimer, reqs, nextRid, sockQ, now, issued, lastRecv,
                 failed>>

\* io.on('connection'): the awaited query has returned, the socket joins the
\* room of every list it selected, and the join-list and leave-list handlers
\* are registered
ConnectionSetup(c) ==
  /\ conn[c] = "setup"
  /\ rooms' = [l \in ListIds |->
                 IF HasAccess(c, l) THEN rooms[l] \cup {c} ELSE rooms[l]]
  /\ conn' = [conn EXCEPT ![c] = "ready"]
  /\ UNCHANGED <<serverVars, clientVars, notesVars, shares, selected, token, lists, limitVars,
                 notesTimer, reqs, nextRid, sockQ, now, issued, lastRecv, failed>>

\* io.on('connection'): the awaited query throws, the catch logs, no room is joined
ConnectionSetupFails(c) ==
  /\ conn[c] = "setup"
  /\ conn' = [conn EXCEPT ![c] = "ready"]
  /\ UNCHANGED <<serverVars, clientVars, notesVars, shares, rooms, selected, token, lists, limitVars,
                 notesTimer, reqs, nextRid, sockQ, now, issued, lastRecv, failed>>

\* socket.on('join-list'): joins the room of the list id it is given
JoinList(c, listId) ==
  /\ conn[c] = "ready"
  /\ rooms' = [rooms EXCEPT ![listId] = @ \cup {c}]
  /\ UNCHANGED <<serverVars, clientVars, notesVars, shares, selected, conn, token, lists, limitVars,
                 notesTimer, reqs, nextRid, sockQ, now, issued, lastRecv, failed>>

\* socket.on('leave-list')
LeaveList(c, listId) ==
  /\ conn[c] = "ready"
  /\ rooms' = [rooms EXCEPT ![listId] = @ \ {c}]
  /\ UNCHANGED <<serverVars, clientVars, notesVars, shares, selected, conn, token, lists, limitVars,
                 notesTimer, reqs, nextRid, sockQ, now, issued, lastRecv, failed>>

\* DELETE /api/lists/:listId/shares/:userId sent by the owner: the share row is
\* deleted and share-removed is emitted to the room; no socket leaves the room
RemoveShare(listId, userId) ==
  /\ shares[userId] # "none"
  /\ shares' = [shares EXCEPT ![userId] = "none"]
  /\ emitListUpdate(listId, Event("share-removed", listId, NoItem, 0, 0))
  /\ UNCHANGED <<serverVars, clientVars, notesVars, rooms, selected, conn, token, lists, limitVars,
                 notesTimer, reqs, nextRid, now, issued, lastRecv, failed>>

InitRooms == InitWith(RoomsRows, {Owner}, {"none", "view", "edit"})

RoomsConnect == \E c \in Clients : \E t \in Tokens : Handshake(c, t)

RoomsSetup == \E c \in Clients : ConnectionSetup(c) \/ ConnectionSetupFails(c)

RoomsJoin == \E c \in Clients : \E l \in ListIds : JoinList(c, l)

RoomsLeave == \E c \in Clients : \E l \in ListIds : LeaveList(c, l)

RoomsUnshare == \E u \in Clients \ {Owner} : RemoveShare(TheList, u)

RoomsCallToggle ==
  /\ issued["toggle"] < RoomsMaxRequests
  /\ \E item \in Range(cItems[Owner]) : toggleItemComplete(Owner, item)

RoomsPut == \E r \in reqs : HandlePut(r)

RoomsResponse == \E r \in reqs : DeliverResponse(r)

RoomsEvent == \E c \in Clients : DeliverEvent(c)

NextRooms ==
  \/ RoomsConnect \/ RoomsSetup \/ RoomsJoin \/ RoomsLeave \/ RoomsUnshare
  \/ RoomsCallToggle \/ RoomsPut \/ RoomsResponse \/ RoomsEvent

SpecRooms == InitRooms /\ [][NextRooms]_vars

\* -------------------------------------------------------- C15 to C18
\* the connection c is handed an event in this step
Receives(c) == Len(sockQ'[c]) = Len(sockQ[c]) + 1

Received(c) == sockQ'[c][Len(sockQ'[c])]

\* the handler of r writes and publishes in this step
Publishes(r) == HandlePut(r) /\ ItemVerdict(r) = 0

\* C15: an event published to the room of a list is handed to every connection
\* that is a member of the room when it is published, and no connection is
\* handed an event of a room it is not a member of
C15_RoomDelivery ==
  [][/\ \A r \in reqs : Publishes(r) =>
          \A c \in rooms[r.listId] :
            /\ Receives(c)
            /\ Received(c).kind = "item-updated"
            /\ Received(c).listId = r.listId
            /\ Received(c).item \in db'
     /\ \A u \in Clients \ {Owner} : RemoveShare(TheList, u) =>
          \A c \in rooms[TheList] :
            Receives(c) /\ Received(c).kind = "share-removed"
     /\ \A c \in Clients :
          Receives(c) => c \in rooms[Received(c).listId]]_vars

\* c2 was not in the room for the first update and did not get it, then joined
\* and was handed the second
C15_Witness ==
  /\ lastRecv[Owner] >= 1
  /\ "c2" \in rooms[TheList]
  /\ Len(sockQ["c2"]) = 1
  /\ sockQ["c2"][1].kind = "item-updated"
  /\ sockQ["c2"][1].cseq = 2

\* C16: a connection is handed an item event of a list only if its user owns
\* the list or holds a share on it when the event is published
C16_EventsOnlyToGranted ==
  [][\A c \in Clients :
       (Receives(c) /\ Received(c).kind = "item-updated")
         => HasAccess(c, Received(c).listId)]_vars

\* C17: a connection whose handshake carried no token or an invalid one is
\* rejected, is a member of no room, and is never handed an event
C17_RejectedGetsNothing ==
  \A c \in Clients :
    token[c] \in {"missing", "invalid"}
      => /\ conn[c] = "rejected"
         /\ \A l \in ListIds : c \notin rooms[l]
         /\ sockQ[c] = <<>>
         /\ lastRecv[c] = 0

\* c2 was rejected for an invalid token; the owner's update was published to
\* the room and handled by the owner
C17_Witness ==
  /\ token["c2"] = "invalid"
  /\ conn["c2"] = "rejected"
  /\ commits >= 1
  /\ lastRecv[Owner] >= 1

\* C18: when the connection handler finishes, the connection is a member of the
\* room of every list its user owns or is shared on, and an event of such a list
\* published after the handshake is handed to the connection
C18_JoinedFromHandshake ==
  [][\A c \in Clients :
       /\ (conn[c] = "setup" /\ conn'[c] = "ready")
            => \A l \in ListIds : HasAccess(c, l) => c \in rooms'[l]
       /\ \A r \in reqs :
            (Publishes(r) /\ conn[c] = "setup" /\ HasAccess(c, r.listId))
              => Receives(c)]_vars

\* ------ SpecNotes: c1 opens the notes of an item and types, c2 toggles it
NoteTexts == {"x", "xy"}

\* obj[key] of a JavaScript object, undefined read as the default
GetProp(obj, key, default) == IF key \in DOMAIN obj THEN obj[key] ELSE default

\* the value of the notes textarea of the item
ShownNotes(editing, items, itemId) ==
  IF itemId \in DOMAIN editing THEN editing[itemId]
  ELSE FindFirst(items, LAMBDA i : i.id = itemId).notes

\* toggleNotesExpanded(itemId)
toggleNotesExpanded(c, itemId) ==
  /\ c \notin crashed
  /\ itemId \in LocalIds(c)
  /\ expandedNotes' = [expandedNotes EXCEPT ![c] =
                         SetProp(@, itemId, ~GetProp(@, itemId, FALSE))]
  /\ editingNotes' = [editingNotes EXCEPT ![c] =
       IF GetProp(@, itemId, "") = "" /\ itemId \notin DOMAIN expandedNotes[c]
       THEN SetProp(@, itemId, FindFirst(cItems[c], LAMBDA i : i.id = itemId).notes)
       ELSE @]
  /\ UNCHANGED <<serverVars, clientVars, shares, rooms, selected, conn, token, lists, limitVars,
                 notesTimer, reqs, nextRid, sockQ, now, issued, lastRecv, failed>>

\* handleNotesChange(itemId, notes): the field is set and the timer restarted
handleNotesChange(c, itemId, notes) ==
  /\ c \notin crashed
  /\ itemId \in LocalIds(c)
  /\ GetProp(expandedNotes[c], itemId, FALSE)
  /\ editingNotes' = [editingNotes EXCEPT ![c] = SetProp(@, itemId, notes)]
  /\ notesTimer' = [notesTimer EXCEPT ![c] = SetProp(@, itemId, notes)]
  /\ UNCHANGED <<serverVars, clientVars, shares, rooms, selected, conn, token, lists, limitVars,
                 expandedNotes, reqs, nextRid, sockQ, now, issued, lastRecv, failed>>

\* the timer of handleNotesChange fires: updateItemNotes sends the PUT, then the
\* entry of the timer is deleted
NotesTimerFires(c, itemId) ==
  /\ itemId \in DOMAIN notesTimer[c]
  /\ Send([NoReq EXCEPT !.client = c, !.op = "notes", !.kind = "PUT",
                        !.id = itemId, !.hasNotes = TRUE,
                        !.notes = notesTimer[c][itemId]])
  /\ notesTimer' = [notesTimer EXCEPT ![c] = DeleteProp(@, itemId)]
  /\ Took("notes")
  /\ UNCHANGED <<serverVars, clientVars, notesVars, shares, rooms, selected, conn,
                 token, lists, limitVars, sockQ, now, lastRecv, failed>>

InitNotes == InitWith(NotesRows, Clients, {"edit"})

NotesExpand == \E itemId \in LocalIds("c1") : toggleNotesExpanded("c1", itemId)

NotesType ==
  /\ issued["notes"] + Cardinality(DOMAIN notesTimer["c1"]) < NotesMaxEdits
  /\ \E itemId \in LocalIds("c1") : \E notes \in NoteTexts :
       handleNotesChange("c1", itemId, notes)

NotesSave == \E itemId \in DOMAIN notesTimer["c1"] : NotesTimerFires("c1", itemId)

NotesCallToggle ==
  /\ issued["toggle"] < NotesMaxToggles
  /\ \E item \in Range(cItems["c2"]) : toggleItemComplete("c2", item)

NotesPut == \E r \in reqs : HandlePut(r)

NotesResponse == \E r \in reqs : DeliverResponse(r)

NotesEvent == \E c \in Clients : DeliverEvent(c)

NextNotes ==
  \/ NotesExpand \/ NotesType \/ NotesSave \/ NotesCallToggle
  \/ NotesPut \/ NotesResponse \/ NotesEvent

SpecNotes == InitNotes /\ [][NextNotes]_vars

\* ------------------------------------------------------------------ C20
\* c has typed notes for the item that the server has not confirmed: the timer
\* is pending, or it has fired and the answer of the save has not come
Unconfirmed(c, itemId) ==
  \/ itemId \in DOMAIN notesTimer[c]
  \/ \E r \in reqs : r.client = c /\ r.op = "notes" /\ r.id = itemId

\* C20: while a client has an unconfirmed notes edit for an item, handling an
\* item-updated event for that item leaves the notes value it shows unchanged
C20_LocalNotesKept ==
  [][\A c \in Clients : \A itemId \in LocalIds(c) :
       (/\ Unconfirmed(c, itemId)
        /\ DeliverEvent(c)
        /\ Head(sockQ[c]).kind = "item-updated"
        /\ Head(sockQ[c]).item # NoItem
        /\ Head(sockQ[c]).item.id = itemId)
         => ShownNotes(editingNotes'[c], cItems'[c], itemId)
              = ShownNotes(editingNotes[c], cItems[c], itemId)]_vars

\* ------ SpecTimer: c1 types notes; the item is deleted by either user, or c1
\* ------ looks at another list, while the timer of the notes is pending
\* a second list of the owner, with no items
OtherList == 2

RECURSIVE RowsInOrder(_)
\* GET /api/lists/:listId/items: ORDER BY position, created_at
RowsInOrder(rows) ==
  IF rows = {} THEN <<>>
  ELSE LET first == CHOOSE x \in rows : \A y \in rows :
                      \/ x.position < y.position
                      \/ x.position = y.position /\ x.id <= y.id
       IN  <<first>> \o RowsInOrder(rows \ {first})

\* onClick of a list: setSelectedList(list); the effect on selectedList leaves
\* the room of the list shown before, joins the room of the new one and runs
\* fetchItems, which replaces the items and clears the notes state
selectList(c, listId) ==
  /\ c \notin crashed
  /\ selected[c] # listId
  /\ selected' = [selected EXCEPT ![c] = listId]
  /\ rooms' = [l \in ListIds |->
                 IF l = listId THEN rooms[l] \cup {c}
                 ELSE IF l = selected[c] THEN rooms[l] \ {c} ELSE rooms[l]]
  /\ cItems' = [cItems EXCEPT ![c] =
                  RowsInOrder(RowsOf(listId))]
  /\ editingNotes' = [editingNotes EXCEPT ![c] = NoProps]
  /\ expandedNotes' = [expandedNotes EXCEPT ![c] = NoProps]
  /\ UNCHANGED <<serverVars, shares, conn, token, lists, limitVars, notesTimer, reqs, nextRid,
                 sockQ, error, crashed, now, issued, lastRecv, failed>>

InitTimer == InitWith(NotesRows, Clients, {"edit"})

TimerCallDelete ==
  /\ issued["delete"] < TimerMaxDeletes
  /\ \E c \in Clients : \E itemId \in LocalIds(c) : deleteItem(c, itemId)

TimerSwitch == \E l \in {TheList, OtherList} : selectList("c1", l)

TimerDel == \E r \in reqs : HandleDelete(r)

NextTimer ==
  \/ NotesExpand \/ NotesType \/ NotesSave \/ TimerCallDelete \/ TimerSwitch
  \/ NotesPut \/ TimerDel \/ NotesResponse \/ NotesEvent

SpecTimer == InitTimer /\ [][NextTimer]_vars

\* ------------------------------------------------------------------ C21
\* C21: a notes timer fires, and its notes request is sent, only for an item
\* of the list the client shows: not for an item that was deleted, locally or
\* by an item-deleted event, nor after the user has switched to another list
C21_NoTimerAfterRemoval ==
  [][\A c \in Clients : \A itemId \in DOMAIN notesTimer[c] :
       NotesTimerFires(c, itemId) => itemId \in LocalIds(c)]_vars

\* ------ SpecReconnect: c2 shows the list; its connection drops and the client
\* ------ library connects again with the same token, while the owner toggles
\* the transport of c closes: the server has created the io without connection
\* state recovery, so the socket is gone from its rooms and what was emitted to
\* it and not yet received is lost; the client's disconnect handler only sets
\* connectionStatus
Drop(c) ==
  /\ conn[c] = "ready"
  /\ conn' = [conn EXCEPT ![c] = "none"]
  /\ rooms' = [l \in ListIds |-> rooms[l] \ {c}]
  /\ sockQ' = [sockQ EXCEPT ![c] = <<>>]
  /\ UNCHANGED <<serverVars, clientVars, notesVars, shares, selected, token, lists, limitVars,
                 notesTimer, reqs, nextRid, now, issued, lastRecv, failed>>

InitReconnect == InitWith(ReconnectRows, Clients, {"edit", "view"})

ReconnectDrop == Drop("c2")

\* the client's connect handler only sets connectionStatus
ReconnectConnect == Handshake("c2", "valid")

ReconnectSetup == ConnectionSetup("c2")

ReconnectCallToggle ==
  /\ issued["toggle"] < ReconnectMaxRequests
  /\ \E item \in Range(cItems[Owner]) : toggleItemComplete(Owner, item)

NextReconnect ==
  \/ ReconnectDrop \/ ReconnectConnect \/ ReconnectSetup \/ ReconnectCallToggle
  \/ NotesPut \/ NotesResponse \/ NotesEvent

SpecReconnect == InitReconnect /\ [][NextReconnect]_vars

\* ------------------------------------------------------------------ C22
\* nothing is in flight: no request, no event, and every connection is set up
AllSetUp ==
  /\ reqs = {}
  /\ \A c \in Clients : sockQ[c] = <<>> /\ conn[c] = "ready"

\* C22: once a connection is set up again and nothing is in flight, the client
\* is a member of the room of the list it shows and its items are the
\* persisted rows of that list
C22_CaughtUpAfterReconnect ==
  AllSetUp =>
    \A c \in Clients :
      selected[c] = TheList
        => /\ c \in rooms[TheList]
           /\ Range(cItems[c]) = RowsOf(TheList)

\* ------ SpecNest: two editors show the same rows and drag them, each from its
\* ------ own view, the PUT requests handled in any order
InitNest == InitWith(NestRows, Clients, {"edit"})

NestDrag ==
  /\ issued["drag"] < NestMaxDrags
  /\ \E c \in Clients :
       \E a \in LocalIds(c), o \in LocalIds(c), nest \in BOOLEAN, above \in BOOLEAN :
         handleDragEnd(c, a, o, nest, above)

NextNest == NestDrag \/ NotesPut \/ NotesResponse \/ NotesEvent

SpecNest == InitNest /\ [][NextNest]_vars

\* ------------------------------------------------------- C23, C24, C25
RECURSIVE AncestorIds(_, _)
\* the identifiers on the persisted parent chain of id, at most n links up
AncestorIds(id, n) ==
  IF n = 0 \/ ~\E row \in db : row.id = id THEN {}
  ELSE LET p == (CHOOSE row \in db : row.id = id).parent_id
       IN  IF p = NoParent THEN {} ELSE {p} \cup AncestorIds(p, n - 1)

\* C23: no persisted item is its own ancestor
C23_ParentsAcyclic ==
  \A row \in db : row.id \notin AncestorIds(row.id, Cardinality(db))

\* both clients have sent a nest of one item under the other, each from a view
\* in which neither has a parent, and both PUT requests were answered 200
C23_Witness ==
  \E r1, r2 \in reqs :
    /\ r1.client = "c1" /\ r2.client = "c2"
    /\ r1.op = "nest" /\ r2.op = "nest"
    /\ r1.id = r2.parentId /\ r2.id = r1.parentId
    /\ r1.pc = "resp" /\ r2.pc = "resp"
    /\ r1.status = 200 /\ r2.status = 200

\* ------ SpecRace: two editors show the same three rows; each moves an item
\* ------ to a position it computes from its own view
InitRace == InitWith(RaceRows, Clients, {"edit"})

RaceDrag ==
  /\ issued["drag"] < RaceMaxDrags
  /\ \E c \in Clients :
       \E a \in LocalIds(c), o \in LocalIds(c), above \in BOOLEAN :
         handleDragEnd(c, a, o, FALSE, above)

NextRace == RaceDrag \/ NotesPut \/ NotesResponse \/ NotesEvent

SpecRace == InitRace /\ [][NextRace]_vars

\* no two rows of a list with the same parent have the same position
SiblingsDistinct(rows) ==
  \A x, y \in rows :
    (x.id # y.id /\ x.list_id = y.list_id /\ x.parent_id = y.parent_id)
      => x.position # y.position

\* the position r carries was taken by no other sibling in the view of the
\* client when it computed it
FreeInView(r) ==
  \A x \in Range(r.pre) :
    (x.id # r.id /\ x.parent_id = r.parentId) => x.position # r.position

\* C24: the update handler, writing a position its client had computed as free
\* from its own view, leaves the positions of the siblings distinct, also when
\* another client's move was written in between
C24_ConcurrentMovesDistinct ==
  [][\A r \in reqs :
       (/\ r.op = "move" /\ HandlePut(r) /\ ItemVerdict(r) = 0
        /\ FreeInView(r)
        /\ SiblingsDistinct(db))
         => SiblingsDistinct(db')]_vars

\* C25: when the handler has answered a nest of X under Y, Y not below X, the
\* persisted row of X has parent Y and a position no other child of Y has
C25_NestPersisted ==
  [][\A r \in reqs :
       (/\ r.op = "nest" /\ HandlePut(r) /\ ItemVerdict(r) = 0
        /\ \E y \in db : y.id = r.parentId
        /\ r.id \notin AncestorIds(r.parentId, Cardinality(db)))
         => \E x \in db' :
              /\ x.id = r.id
              /\ x.parent_id = r.parentId
              /\ \A y \in db' :
                   (y.id # x.id /\ y.parent_id = r.parentId)
                     => y.position # x.position]_vars

\* ------ SpecOwner: either user asks to delete the list, to share it, or to
\* ------ remove a share
\* a check that lets a user with an edit share pass as the owner
IsOwnerOrEditor(user, listId) == listId \in lists /\ canEdit(user)

\* ownerCheck: the list exists and lists.user_id is the user of the request
IsOwner(user, listId) == listId \in lists /\ user = Owner

\* deleteList(listId)
deleteList(c, listId) ==
  /\ c \notin crashed
  /\ Send([NoReq EXCEPT !.client = c, !.op = "deleteList", !.kind = "DELETE-LIST",
                        !.listId = listId])
  /\ Took("admin")
  /\ UNCHANGED <<serverVars, clientVars, fixedVars, notesVars, sockQ, now, lastRecv,
                 failed>>

\* shareList with the e-mail address of userId and the permission chosen
shareList(c, listId, userId, permission) ==
  /\ c \notin crashed
  /\ Send([NoReq EXCEPT !.client = c, !.op = "share", !.kind = "POST-SHARE",
                        !.listId = listId, !.userId = userId,
                        !.permission = permission])
  /\ Took("admin")
  /\ UNCHANGED <<serverVars, clientVars, fixedVars, notesVars, sockQ, now, lastRecv,
                 failed>>

\* removeShare(userId)
removeShare(c, listId, userId) ==
  /\ c \notin crashed
  /\ Send([NoReq EXCEPT !.client = c, !.op = "unshare", !.kind = "DELETE-SHARE",
                        !.listId = listId, !.userId = userId])
  /\ Took("admin")
  /\ UNCHANGED <<serverVars, clientVars, fixedVars, notesVars, sockQ, now, lastRecv,
                 failed>>

\* DELETE /api/lists/:id: DELETE FROM lists WHERE id = $1 AND user_id = $2; the
\* items and the shares of the list go with it (ON DELETE CASCADE)
HandleDeleteList(r) ==
  /\ r.kind = "DELETE-LIST" /\ r.pc = "start"
  /\ IF ~IsOwner(r.client, r.listId)
     THEN Respond(r, 403) /\ UNCHANGED <<db, lists, shares, sockQ>>
     ELSE /\ lists' = lists \ {r.listId}
          /\ db' = db \ RowsOf(r.listId)
          /\ shares' = [u \in DOMAIN shares |-> "none"]
          /\ emitListUpdate(r.listId, Event("list-deleted", r.listId, NoItem, 0, 0))
          /\ Respond(r, 200)
  /\ UNCHANGED <<nextId, commits, clientVars, notesVars, rooms, selected, conn,
                 token, limitVars, notesTimer, nextRid, now, issued, lastRecv,
                 failed>>

\* POST /api/lists/:id/share
HandleShare(r) ==
  /\ r.kind = "POST-SHARE" /\ r.pc = "start"
  /\ IF ~IsOwner(r.client, r.listId)
     THEN Respond(r, 403) /\ UNCHANGED <<shares, sockQ>>
     ELSE /\ shares' = [shares EXCEPT ![r.userId] = r.permission]
          /\ emitListUpdate(r.listId, Event("list-shared", r.listId, NoItem, 0, 0))
          /\ Respond(r, 201)
  /\ UNCHANGED <<serverVars, clientVars, notesVars, rooms, selected, conn, token,
                 lists, limitVars, notesTimer, nextRid, now, issued, lastRecv, failed>>

\* DELETE /api/lists/:listId/shares/:userId
HandleUnshare(r) ==
  /\ r.kind = "DELETE-SHARE" /\ r.pc = "start"
  /\ IF ~IsOwner(r.client, r.listId)
     THEN Respond(r, 403) /\ UNCHANGED <<shares, sockQ>>
     ELSE /\ shares' = [shares EXCEPT ![r.userId] = "none"]
          /\ emitListUpdate(r.listId, Event("share-removed", r.listId, NoItem, 0, 0))
          /\ Respond(r, 200)
  /\ UNCHANGED <<serverVars, clientVars, notesVars, rooms, selected, conn, token,
                 lists, limitVars, notesTimer, nextRid, now, issued, lastRecv, failed>>

InitOwner == InitWith(OwnerRows, Clients, {"edit", "view", "none"})

OwnerCall ==
  /\ issued["admin"] < OwnerMaxRequests
  /\ \E c \in Clients :
       \/ deleteList(c, TheList)
       \/ \E u \in Clients \ {Owner} : \E p \in {"edit", "view"} :
            shareList(c, TheList, u, p)
       \/ \E u \in Clients \ {Owner} : removeShare(c, TheList, u)

OwnerServer ==
  \E r \in reqs : HandleDeleteList(r) \/ HandleShare(r) \/ HandleUnshare(r)

NextOwner == OwnerCall \/ OwnerServer \/ NotesResponse \/ NotesEvent

SpecOwner == InitOwner /\ [][NextOwner]_vars

\* ------------------------------------------------------------------ C26
\* C26: a request to delete the list, to share it or to remove a share, made by
\* a user who is not the owner, is answered 403, changes no list, share or
\* item, and emits no event
C26_OwnerOnly ==
  [][\A r \in reqs :
       (r.client # Owner
        /\ (HandleDeleteList(r) \/ HandleShare(r) \/ HandleUnshare(r)))
         => /\ Answered(r, 403)
            /\ lists' = lists /\ shares' = shares /\ db' = db
            /\ sockQ' = sockQ]_vars

\* c2, holding an edit share, was refused a share request and shown the error
\* while the list, its row and its share are as they were
C26_Witness ==
  /\ shares["c2"] = "edit"
  /\ error["c2"] = "Not authorized to share this list"
  /\ lists = {TheList}
  /\ Cardinality(db) = OwnerRows

\* ------ SpecLimit: requests of two addresses pass the rate limiter while the
\* ------ clock advances; the item routes of the other specifications send
\* ------ fewer requests than any limit
RATE_LIMIT_WINDOW == 900000
MAX_REQUESTS == 100
MAX_AUTH_REQUESTS == 5

\* the limit of every route applied to the authentication routes as well
LimitOfAny(isAuthRoute) == MAX_REQUESTS

\* const limit = isAuthRoute ? MAX_AUTH_REQUESTS : MAX_REQUESTS
LimitOf(isAuthRoute) == IF isAuthRoute THEN MAX_AUTH_REQUESTS ELSE MAX_REQUESTS

\* `${ip}:${isAuthRoute ? 'auth' : 'api'}`
KeyOf(ip, isAuthRoute) == <<ip, IF isAuthRoute THEN "auth" ELSE "api">>

\* the Map after the loop that deletes the entries whose window is over
CleanedUp(counts, t) ==
  [k \in {k \in DOMAIN counts : ~(t - counts[k].windowStart > RATE_LIMIT_WINDOW)}
     |-> counts[k]]

\* the entry of the key after the middleware has counted the request
Counted(counts, key, t) ==
  LET requestData == IF key \in DOMAIN counts THEN counts[key]
                     ELSE [count |-> 0, windowStart |-> t]
      current == IF t - requestData.windowStart > RATE_LIMIT_WINDOW
                 THEN [count |-> 0, windowStart |-> t]
                 ELSE requestData
  IN  [current EXCEPT !.count = @ + 1]

\* history: the window of the key the request falls in, a new one when none
\* runs, with the request counted when it was passed on
WindowAfter(w, key, t, passed) ==
  LET running == IF key \in DOMAIN w /\ t - w[key].start <= RATE_LIMIT_WINDOW
                 THEN w[key]
                 ELSE [start |-> t, passed |-> 0]
  IN  SetProp(w, key, [running EXCEPT !.passed = @ + (IF passed THEN 1 ELSE 0)])

\* the rate limiting middleware on a request of address ip: 429, or next()
RateLimit(ip, isAuthRoute) ==
  LET key == KeyOf(ip, isAuthRoute)
      cleaned == CleanedUp(requestCounts, now)
      counted == Counted(cleaned, key, now)
      status == IF counted.count > LimitOf(isAuthRoute) THEN 429 ELSE 0
  IN  /\ requestCounts' = SetProp(cleaned, key, counted)
      /\ lastStatus' = status
      /\ win' = WindowAfter(win, key, now, status = 0)
      /\ UNCHANGED <<serverVars, clientVars, notesVars, shares, rooms, selected,
                     conn, token, lists, notesTimer, reqs, nextRid, sockQ, now,
                     issued, lastRecv, failed>>

\* the clock advances
Tick(d) ==
  /\ now' = now + d
  /\ UNCHANGED <<serverVars, clientVars, fixedVars, notesVars, reqs, nextRid, sockQ,
                 issued, lastRecv, failed>>

InitLimit == InitWith(0, {}, {"none"})

\* who sends: one address uses both kinds of route, the other signs in only
Requesters == {<<"ip1", TRUE>>, <<"ip1", FALSE>>, <<"ip2", TRUE>>}

LimitRequest ==
  \E q \in Requesters :
    /\ KeyOf(q[1], q[2]) \in DOMAIN requestCounts
         => requestCounts[KeyOf(q[1], q[2])].count < LimitOf(q[2]) + LimitMaxOver
    /\ RateLimit(q[1], q[2])

LimitTick ==
  \E d \in {RATE_LIMIT_WINDOW \div 2, RATE_LIMIT_WINDOW + 1} :
    /\ now + d <= 1 + LimitMaxWindows * (RATE_LIMIT_WINDOW + 1)
    /\ Tick(d)

NextLimit == LimitRequest \/ LimitTick

SpecLimit == InitLimit /\ [][NextLimit]_vars

\* ------------------------------------------------------------------ C27
\* what the documentation allows a key in one window
AllowedPerWindow(key) == IF key[2] = "auth" THEN 5 ELSE 100

\* the window of the key is running and has let the allowed number through
WindowFull(key) ==
  /\ key \in DOMAIN win
  /\ now - win[key].start <= RATE_LIMIT_WINDOW
  /\ win[key].passed >= AllowedPerWindow(key)

\* C27: per address and kind of route, at most 5 (authentication) or 100
\* (other) requests of one window are passed on; a request is answered 429
\* exactly when its window has already let that many through, so the count
\* starts from zero with the first request after the window is over
C27_RateLimited ==
  [][\A q \in Requesters :
       RateLimit(q[1], q[2])
         => LET key == KeyOf(q[1], q[2])
            IN  /\ (lastStatus' = 429) = WindowFull(key)
                /\ win'[key].passed <= AllowedPerWindow(key)]_vars

\* ip1 has had its five authentication requests passed and the sixth refused,
\* and after the window was over a request of it was passed again; its other
\* routes are past a hundred and refused
C27_Witness ==
  /\ <<"ip1", "auth">> \in DOMAIN win
  /\ win[<<"ip1", "auth">>].start > 1 + RATE_LIMIT_WINDOW
  /\ win[<<"ip1", "auth">>].passed = 1
  /\ <<"ip1", "api">> \in DOMAIN requestCounts
  /\ requestCounts[<<"ip1", "api">>].count = 101
  /\ lastStatus = 429

\* -------------------------- SpecTwin: several pending creates of equal text
\* c1 creates items that all have the text a, which sanitizeInput leaves as it
\* is; the server answers the requests in any order
TwinText == <<"a">>

TwinCall ==
  /\ issued["create"] < TwinMaxCreates
  /\ createItem("c1", TwinText, NoParent, now)
  /\ now' = now + 1

NextTwin == TwinCall \/ CreateServer \/ CreateResponse \/ CreateEvent

SpecTwin == InitWith(TwinRows, Clients, {"edit"}) /\ [][NextTwin]_vars

\* ------------------------------------------------------------------ C28
\* C28: in every reachable state no two entries of a client's list have the
\* same identifier, whatever the order of responses and broadcasts
C28_LocalIdsUnique ==
  \A c \in Clients :
    \A i, j \in DOMAIN cItems[c] : i # j => cItems[c][i].id # cItems[c][j].id

\* ------------------ SpecTrim: creates whose text the server changes on storing
\* what c1 types is changed by sanitizeInput: a character of the removed class
\* is taken out, a blank at an end is trimmed
TrimTexts == {<<"a", "(">>, <<"b", " ">>}

TrimCall ==
  /\ issued["create"] < TrimMaxCreates
  /\ \E text \in TrimTexts : createItem("c1", text, NoParent, now)
  /\ now' = now + 1

NextTrim == TrimCall \/ CreateServer \/ CreateResponse \/ CreateEvent

SpecTrim == InitWith(TrimRows, Clients, {"edit"}) /\ [][NextTrim]_vars

\* ------------------------------------------------------------------ C29
\* C29: once the creates of a text that the server changed were answered
\* without error and their responses and broadcasts were all handled by the
\* creating client, in whatever order, its list has exactly one entry for
\* each created row and no temporary entry
C29_ChangedTextReconciled ==
  (/\ issued["create"] >= 1
   /\ reqs = {} /\ sockQ["c1"] = <<>>
   /\ ~failed)
    => /\ \A row \in db :
            row.id > TrimRows
              => Count(cItems["c1"], LAMBDA x : x.id = row.id) = 1
       /\ \A x \in Range(cItems["c1"]) : ~IsTemp(x.id)

\* --------------- SpecTemp: local actions on an item whose create is pending
\* c1 creates an item and, while the temporary entry is in its list, may
\* delete it or toggle it; the text a is stored, the text ( is refused (400)
TempTexts == {<<"a">>, <<"(">>}

TempCall ==
  /\ issued["create"] < TempMaxCreates
  /\ \E text \in TempTexts : createItem("c1", text, NoParent, now)
  /\ now' = now + 1

TempCallDelete ==
  /\ issued["delete"] + issued["toggle"] < TempMaxLocal
  /\ \E x \in Range(cItems["c1"]) : IsTemp(x.id) /\ deleteItem("c1", x.id)

TempCallToggle ==
  /\ issued["delete"] + issued["toggle"] < TempMaxLocal
  /\ \E x \in Range(cItems["c1"]) : IsTemp(x.id) /\ toggleItemComplete("c1", x)

TempServer == \E r \in reqs : HandlePost(r) \/ HandlePut(r) \/ HandleDelete(r)

NextTemp ==
  \/ TempCall \/ TempCallDelete \/ TempCallToggle
  \/ TempServer \/ CreateResponse \/ CreateEvent

SpecTemp == InitWith(TempRows, Clients, {"edit"}) /\ [][NextTemp]_vars

\* ------------------------------------------------------------------ C30
\* C30: once every request of a client was answered, the create of each
\* temporary item included, and every broadcast was delivered to it, its list
\* has no entry with a temporary identifier, whether or not the temporary item
\* was deleted or toggled in between
C30_TempResolved ==
  \A c \in Clients :
    ((\A r \in reqs : r.client # c) /\ sockQ[c] = <<>>)
      => \A x \in Range(cItems[c]) : ~IsTemp(x.id)

\* ------------------------- SpecDrop: sibling drops, one at a time, no nesting
\* the owner shows a list of rows at positions 1, 2, 3 and drags a row onto
\* another one, above or below it, only when nothing is under way
DropDrag ==
  /\ issued["drag"] < DropMaxDrags
  /\ Quiet("c1")
  /\ \E a \in LocalIds("c1"), o \in LocalIds("c1"), above \in BOOLEAN :
       handleDragEnd("c1", a, o, FALSE, above)

DropServer == \E r \in reqs : HandlePut(r)

NextDrop == DropDrag \/ DropServer \/ MovesDeliver

SpecDrop == InitWith(DropRows, {"c1"}, {"none"}) /\ [][NextDrop]_vars

\* the siblings of the target of r in rows, the moved row left out
OtherSiblings(rows, r) ==
  LET t == CHOOSE x \in rows : x.id = r.overId
  IN  {x \in rows : x.list_id = t.list_id /\ x.parent_id = t.parent_id /\ x.id # r.id}

\* in rows the moved row of r is on the side of its target that the drop
\* named, and no other sibling is at its position or between the two
PlacedNextTo(rows, r) ==
  LET t == CHOOSE x \in rows : x.id = r.overId
      x == CHOOSE y \in rows : y.id = r.id
      lo == IF r.above THEN x.position ELSE t.position
      hi == IF r.above THEN t.position ELSE x.position
  IN  /\ lo < hi
      /\ \A y \in OtherSiblings(rows, r) \ {t} : y.position < lo \/ y.position > hi

\* ------------------------------------------------------------------ C31
\* C31: when the update of a sibling drop is stored, the moved row is in the
\* order of positions immediately before (after) the target, strictly between
\* the target and the target's previous (next) sibling, also when the
\* positions of the neighbours leave no room
C31_DropAdjacent ==
  [][\A r \in reqs :
       (r.op = "move" /\ HandlePut(r) /\ ItemVerdict(r) = 0)
         => PlacedNextTo(db', r)]_vars

\* the siblings of the target of r as the client saw them, in order of position
SiblingsInView(r) ==
  LET t == FindFirst(r.pre, LAMBDA x : x.id = r.overId)
  IN  SortByPosition(SelectSeq(r.pre, LAMBDA x : x.parent_id = t.parent_id))

\* ------------------------------------------------------------------ C32
\* C32: a sibling drop above the first sibling stores the position of that
\* sibling minus 1000, one below the last sibling stores the position of
\* that sibling plus 1000, whatever the position of the sibling is
C32_EndsByGap ==
  [][\A r \in reqs :
       (r.op = "move" /\ HandlePut(r) /\ ItemVerdict(r) = 0)
         => LET sib == SiblingsInView(r)
                t == FindFirst(r.pre, LAMBDA x : x.id = r.overId)
                stored == (CHOOSE x \in db' : x.id = r.id).position
            IN  /\ (r.above /\ sib[1].id = t.id) => stored = t.position - GAP
                /\ (~r.above /\ sib[Len(sib)].id = t.id)
                     => stored = t.position + GAP]_vars

\* ------------------------ SpecDuel: two users save notes of the same item
\* what each user types into the notes field: different texts
DuelText == [c \in Clients |-> IF c = "c1" THEN "x" ELSE "xy"]

DuelExpand ==
  \E c \in Clients : \E itemId \in LocalIds(c) :
    /\ itemId \notin DOMAIN expandedNotes[c]
    /\ toggleNotesExpanded(c, itemId)

DuelType ==
  \E c \in Clients :
    /\ issued["notes"] + Cardinality(DOMAIN notesTimer["c1"])
         + Cardinality(DOMAIN notesTimer["c2"]) < DuelMaxEdits
    /\ \E itemId \in LocalIds(c) : handleNotesChange(c, itemId, DuelText[c])

DuelSave ==
  \E c \in Clients : \E itemId \in DOMAIN notesTimer[c] : NotesTimerFires(c, itemId)

NextDuel ==
  DuelExpand \/ DuelType \/ DuelSave \/ NotesPut \/ NotesResponse \/ NotesEvent

SpecDuel == InitWith(DuelRows, Clients, {"edit"}) /\ [][NextDuel]_vars

\* every save was answered without error and nothing is left to deliver
DuelSettled ==
  /\ issued["notes"] >= 2
  /\ reqs = {} /\ \A c \in Clients : sockQ[c] = <<>> /\ notesTimer[c] = NoProps
  /\ ~failed

\* ------------------------------------------------------------------ C33
\* C33: after two clients saved different notes for the same item and all
\* responses and broadcasts were delivered, both clients hold the notes the
\* store holds, the ones written last, in whatever order each client handled
\* its own response and the broadcast of the other
C33_LastWriterWins ==
  DuelSettled
    => \A c \in Clients : \A x \in Range(cItems[c]) : \A row \in db :
         row.id = x.id => x.notes = row.notes

\* ------------------------------------------------------------------ C34
\* the entry x after an event carrying item was handled with the notes kept
KeptNotes(x, item) ==
  /\ x.id = item.id /\ x.list_id = item.list_id /\ x.text = item.text
  /\ x.completed = item.completed /\ x.position = item.position
  /\ x.parent_id = item.parent_id

\* C34: when a client handles an item-updated event for an item whose notes
\* timer is pending, every field of that item but the notes takes the value
\* of the event, the notes stay, and no other entry of the list changes
C34_OtherFieldsApplied ==
  [][\A c \in Clients :
       (/\ DeliverEvent(c)
        /\ c \notin crashed /\ selected[c] = Head(sockQ[c]).listId
        /\ Head(sockQ[c]).kind = "item-updated"
        /\ Head(sockQ[c]).item.id \in DOMAIN notesTimer[c])
         => LET item == Head(sockQ[c]).item
            IN  /\ Len(cItems'[c]) = Len(cItems[c])
                /\ \A i \in DOMAIN cItems[c] :
                     IF cItems[c][i].id = item.id
                     THEN /\ KeptNotes(cItems'[c][i], item)
                          /\ cItems'[c][i].notes = cItems[c][i].notes
                     ELSE cItems'[c][i] = cItems[c][i]]_vars

\* c1 has handled the event of the second write, a toggle by c2 among the two,
\* with its timer pending: the item is completed as in the event and its
\* notes are still the local ones, not the stored ones
C34_Witness ==
  /\ 1 \in DOMAIN notesTimer["c1"]
  /\ commits = 2 /\ lastRecv["c1"] = 2
  /\ \E row \in db : row.id = 1 /\ row.notes = "x" /\ row.completed
  /\ cItems["c1"][1].notes = "" /\ cItems["c1"][1].completed

\* ------------- SpecGrant: the owner shares the list with a connected user
\* the owner is connected and shows the list; the other user connects at any
\* time, with or without a share, and the owner grants or changes its share
GrantCall ==
  /\ issued["admin"] < GrantMaxRequests
  /\ \E u \in Clients \ {Owner} : \E p \in {"edit", "view"} :
       shareList(Owner, TheList, u, p)

GrantServer == \E r \in reqs : HandleShare(r)

NextGrant ==
  \/ RoomsConnect \/ RoomsSetup \/ GrantCall \/ GrantServer
  \/ RoomsResponse \/ RoomsEvent

SpecGrant == InitWith(GrantRows, {Owner}, {"none", "view"}) /\ [][NextGrant]_vars

\* ------------------------------------------------------------------ C35
\* C35: when the share request of the owner for a user is stored while that
\* user has a live authenticated connection, the list-shared event of the
\* list is emitted to that connection
C35_GrantNotified ==
  [][\A r \in reqs :
       (/\ HandleShare(r) /\ IsOwner(r.client, r.listId)
        /\ conn[r.userId] = "ready")
         => /\ Len(sockQ'[r.userId]) = Len(sockQ[r.userId]) + 1
            /\ sockQ'[r.userId][Len(sockQ'[r.userId])].kind = "list-shared"]_vars

\* ------------------- SpecFetch: lists opened one after the other, and edits
\* setSelectedList(list) and the effect on selectedList: the ref is set, the
\* room of the list left behind is left and the one of the new list joined,
\* and fetchItems sends GET /api/lists/:listId/items; the items stay as they
\* are until a response comes
openList(c, listId) ==
  /\ c \notin crashed
  /\ selected[c] # listId
  /\ selected' = [selected EXCEPT ![c] = listId]
  /\ rooms' = [l \in ListIds |->
                 IF l = listId THEN rooms[l] \cup {c}
                 ELSE IF l = selected[c] THEN rooms[l] \ {c} ELSE rooms[l]]
  /\ Send([NoReq EXCEPT !.client = c, !.op = "fetch", !.kind = "GET",
                        !.listId = listId])
  /\ Took("admin")
  /\ UNCHANGED <<serverVars, clientVars, notesVars, shares, conn, token, lists,
                 limitVars, notesTimer, sockQ, now, lastRecv, failed>>

\* GET /api/lists/:listId/items: the rows of the list as the SELECT reads
\* them; cseq records the number of writes the read has seen
HandleGetItems(r) ==
  /\ r.kind = "GET" /\ r.pc = "start"
  /\ IF ~HasAccess(r.client, r.listId)
     THEN Respond(r, 403)
     ELSE Step(r, [r EXCEPT !.pc = "resp", !.status = 200,
                            !.rows = RowsInOrder(RowsOf(r.listId)),
                            !.cseq = commits])
  /\ UNCHANGED <<serverVars, clientVars, fixedVars, notesVars, nextRid, sockQ, now,
                 issued, lastRecv, failed>>

\* fetchItems after the await: setItems(response.data) and the notes state
\* cleared, or the error shown
DeliverFetch(r) ==
  /\ r.op = "fetch" /\ r.pc = "resp"
  /\ reqs' = reqs \ {r}
  /\ IF r.client \in crashed THEN UNCHANGED <<cItems, error, notesVars>>
     ELSE IF r.status < 400
     THEN /\ cItems' = [cItems EXCEPT ![r.client] = r.rows]
          /\ editingNotes' = [editingNotes EXCEPT ![r.client] = NoProps]
          /\ expandedNotes' = [expandedNotes EXCEPT ![r.client] = NoProps]
          /\ UNCHANGED error
     ELSE /\ error' = [error EXCEPT ![r.client] = "Failed to fetch items"]
          /\ UNCHANGED <<cItems, notesVars>>
  /\ failed' = (failed \/ r.status >= 400)
  /\ UNCHANGED <<serverVars, fixedVars, nextRid, sockQ, crashed, now, issued,
                 lastRecv>>

FetchOpen ==
  /\ issued["admin"] < FetchMaxOpens
  /\ \E l \in {TheList, OtherList} : openList("c1", l)

FetchCallToggle ==
  /\ issued["toggle"] < FetchMaxToggles
  /\ \E item \in Range(cItems["c2"]) : toggleItemComplete("c2", item)

FetchServer == \E r \in reqs : HandleGetItems(r) \/ HandlePut(r)

FetchResponse ==
  \E r \in reqs : IF r.op = "fetch" THEN DeliverFetch(r) ELSE DeliverResponse(r)

NextFetch ==
  FetchOpen \/ FetchCallToggle \/ FetchServer \/ FetchResponse \/ NotesEvent

SpecFetch == InitWith(FetchRows, Clients, {"edit"}) /\ [][NextFetch]_vars

\* ------------------------------------------------------------------ C36
\* C36: the response of a fetchItems for a list that is no longer the one
\* selected when it arrives does not replace the items the client shows
C36_StaleFetchIgnored ==
  [][\A r \in reqs :
       (DeliverFetch(r) /\ r.listId # selected[r.client])
         => cItems'[r.client] = cItems[r.client]]_vars

\* ------------------------------------------------------------------ C37
\* C37: when a client whose list shows the stored rows, an event committed
\* after the read of its fetch included, handles the response of that fetch,
\* its list still shows the stored rows: the change of the event is not
\* taken back
C37_FetchKeepsEvents ==
  [][\A r \in reqs :
       (/\ DeliverFetch(r) /\ r.status = 200
        /\ r.listId = selected[r.client]
        /\ lastRecv[r.client] > r.cseq
        /\ Range(cItems[r.client]) = RowsOf(r.listId))
         => Range(cItems'[r.client]) = RowsOf(r.listId)]_vars

\* ------------- SpecClock: creates at any reading of the millisecond clock
\* createItem reads Date.now() for the temporary identifier; the clock moves
\* on by itself, between two calls or not
ClockCreate ==
  /\ issued["create"] < ClockMaxCreates
  /\ \E text \in Texts : createItem("c1", text, NoParent, now)
  /\ UNCHANGED now

ClockTick ==
  /\ now < 1 + ClockMaxTicks
  /\ Tick(1)

NextClock ==
  ClockCreate \/ ClockTick \/ CreateServer \/ CreateResponse \/ CreateEvent

SpecClock == InitWith(ClockRows, Clients, {"edit"}) /\ [][NextClock]_vars

\* ------------------------------------------------------------------ C38
\* C38: two creates of one client that are under way together have different
\* temporary identifiers, also when both were issued within one millisecond
C38_TempIdsDistinct ==
  \A r1, r2 \in reqs :
    (/\ r1.op = "create" /\ r2.op = "create"
     /\ r1.client = r2.client /\ r1.rid # r2.rid)
      => r1.tempId # r2.tempId

\* ------------------------------------------------------------------ C39
\* C39: when a client handles a list-deleted event for the list it is
\* viewing, its selected list is cleared and its item list is emptied
C39_DeletedListClosed ==
  [][\A c \in Clients :
       (/\ DeliverEvent(c) /\ c \notin crashed
        /\ Head(sockQ[c]).kind = "list-deleted"
        /\ Head(sockQ[c]).listId = selected[c])
         => selected'[c] = 0 /\ cItems'[c] = <<>>]_vars

\* -------------------- SpecWalk: drops on a local list with any parent links
\* the local lists of WalkLen items whose parent links are drawn freely: no
\* parent, any item of the list (cycles included), or an item not in the list
WalkLists ==
  {[i \in 1..WalkLen |->
      [Row(i, TheList, <<"a">>, FALSE, i) EXCEPT !.parent_id = f[i]]] :
     f \in [1..WalkLen -> 0..(WalkLen + 1)]}

InitWalk ==
  /\ db = {Row(i, TheList, <<"a">>, FALSE, i) : i \in 1..WalkLen}
  /\ nextId = WalkLen + 1
  /\ shares = [c \in Clients \ {Owner} |-> "none"]
  /\ rooms = [l \in {TheList} |-> {"c1"}]
  /\ reqs = {} /\ nextRid = 1
  /\ sockQ = [c \in Clients |-> <<>>]
  /\ \E items \in WalkLists :
       cItems = [c \in Clients |-> IF c = "c1" THEN items ELSE <<>>]
  /\ selected = [c \in Clients |-> IF c = "c1" THEN TheList ELSE 0]
  /\ error = [c \in Clients |-> NoError]
  /\ crashed = {}
  /\ now = 1
  /\ issued = [o \in Ops |-> 0]
  /\ commits = 0
  /\ lastRecv = [c \in Clients |-> 0]
  /\ failed = FALSE
  /\ conn = [c \in Clients |-> IF c = "c1" THEN "ready" ELSE "none"]
  /\ token = [c \in Clients |-> IF c = "c1" THEN "valid" ELSE "none"]
  /\ lists = {TheList}
  /\ requestCounts = NoProps
  /\ lastStatus = 0
  /\ win = NoProps
  /\ notesTimer = [c \in Clients |-> NoProps]
  /\ editingNotes = [c \in Clients |-> NoProps]
  /\ expandedNotes = [c \in Clients |-> NoProps]

WalkDrag ==
  /\ issued["drag"] < WalkMaxDrags
  /\ \E a \in LocalIds("c1"), o \in LocalIds("c1"), nest \in BOOLEAN, above \in BOOLEAN :
       handleDragEnd("c1", a, o, nest, above)

NextWalk == WalkDrag \/ DropServer \/ MovesDeliver

SpecWalk == InitWalk /\ [][NextWalk]_vars

====
